---- MODULE Spec2Model ----
(***************************************************************************)
(* Transactional batch ingestion engine of data-ingestor.                  *)
(*                                                                         *)
(* Spec        : one run of MapReduceStreaming with one transaction per    *)
(*               worker (package mapreduce, worker + MapReduceStreaming)   *)
(*               followed by the reduce function ProcessMapResults.        *)
(* SpecTight   : the same run with fewer places in resultChan than         *)
(*               workers.                                                  *)
(* SpecTerm    : the same run under fair scheduling, also with a source    *)
(*               longer than the channels against a store that refuses     *)
(*               every Begin.                                              *)
(* SpecCounter : the same run with the steps of Counter.Increment.          *)
(* SpecMain    : the same run followed by the end of main: exit on an      *)
(*               error, move of the input file on success.                 *)
(* SpecReduce  : ProcessMapResults applied to an arbitrary result list.    *)
(* SpecDispatch: the batching goroutines of the per-batch version, bulk     *)
(*               (MapReduce) and streaming (MapReduceStreaming), with the  *)
(*               workers reduced to taking batches off taskChan.           *)
(* SpecBatch   : a whole run of the per-batch version: every batch gets    *)
(*               its own transaction from a pool of workerCount            *)
(*               connections.                                              *)
(* SpecChan    : a whole run of the stream-per-task version (package       *)
(*               mapreduce: MapReduce and MapReduceStreaming).             *)
(* SpecFlatten : one record of a JSON or XML file through the schema-      *)
(*               driven flattener, and one of its rows through             *)
(*               InsertRecordsUsingSchema.                                 *)
(* SpecFlattenEarlier: the same for the XML flattener of the earlier       *)
(*               loader.                                                   *)
(*                                                                         *)
(* The store is the abstract boundary begin/exec/commit/rollback: every    *)
(* call may succeed or fail, chosen nondeterministically.                  *)
(***************************************************************************)
EXTENDS Integers, Sequences, FiniteSets, TLC

\* ---------------------------------------------------------------- bounds
\* workerCount of the run
W == 2
\* largest number of records the source produces in a run
MaxRecords == 3
\* longest result list handed to ProcessMapResults in SpecReduce
MaxResults == 3

\* largest workerCount of a dispatcher run (SpecDispatch)
MaxWorkerCount == 3
\* largest len(records) of a bulk MapReduce call (SpecDispatch)
MaxBulkRecords == 10
\* largest number of records a streaming source produces in SpecDispatch
MaxStreamRecords == 21

\* largest number of records of a run against a store in which every call
\* may fail (SpecTerm)
MaxTermRecords == 1

\* largest number of records of a run in SpecCounter
MaxCounterRecords == 2

\* largest collection items of an input record (SpecFlatten)
MaxElems == 3
\* largest collection tags of an input record (SpecFlatten)
MaxSiblings == 2

\* ------------------------------------------------------ program constants
RecordChanCap == 20
TaskChanCap == 20
ResultChanCap == 20

Workers == 0 .. (W - 1)
Records == 1 .. MaxRecords

\* the value of Counter.mu when no worker holds it
NoWorker == -1

\* *sql.Tx values: NilTx is the nil pointer, a positive number one transaction
NilTx == 0
MaxTx == IF W > MaxResults THEN W ELSE MaxResults
TxIds == 1 .. MaxTx

\* error values: NoErr is the nil error
NoErr == "nil"
BeginErr == "begin_err"
InsertErr == "insert_err"
Errs == {NoErr, BeginErr, InsertErr}

\* MapResult{BatchID, Err, Tx}
MapResult(b, e, t) == [BatchID |-> b, Err |-> e, Tx |-> t]

VARIABLES
    loaderPc,     \* file loading goroutine: "run", "closed", "done"
    crashed,      \* the process panicked
    sent,         \* records the source pushed into recordChan so far
    recordChan,   \* buffered channel of records
    recordClosed,
    dispPc,       \* forwarding goroutine: "recv", "send", "done"
    dispRec,      \* record held by the forwarding goroutine
    taskChan,     \* buffered channel of tasks
    taskClosed,
    wpc,          \* worker position: "begin", "loop", "map", "emit", "sent", "done"
    werr,         \* worker's err variable
    wtx,          \* worker's tx variable
    wbatch,       \* the batch a worker is mapping
    everFailed,   \* history: a mapFunc call of the worker returned an error
    recvAfterFail,\* history: items received by a worker after such an error
    mapCalls,     \* history: mapFunc calls per worker
    counter,      \* util.Counter.total
    resultChan,   \* buffered channel of MapResult
    resultClosed,
    results,      \* the results slice of MapReduceStreaming
    mainPc,       \* MapReduceStreaming: "collect", "reduce", "returned"; main after
                  \* it: "move", "remove", "exited"
    ret,          \* value returned by the reduce function
    txState,      \* state of every transaction
    txRows,       \* records inserted inside every transaction
    calls,        \* history: Commit / Rollback calls in call order
    beginCalls,   \* history: db.Begin calls per worker
    execLog,      \* history: <<worker, transaction>> of every mapFunc call
    mapCount,     \* history: mapFunc calls per record
    mode,         \* SpecDispatch: "bulk" (MapReduce) or "stream" (MapReduceStreaming)
    workerCount,  \* SpecDispatch: the workerCount argument
    nRecords,     \* len(records) of the bulk call; SpecChan, streaming: the number
                  \* of records streamFunc sends before it returns
    idx,          \* SpecDispatch: loop variable i of the bulk dispatcher
    batch,        \* SpecDispatch: the batch buffer of the streaming dispatcher
    emitted,      \* history: the batches sent on taskChan, in order
    format,       \* SpecFlatten: "json" or "xml", the format of the input file
    columns,      \* SpecFlatten: the allowed column names
    rec,          \* SpecFlatten: the record read from the file
    nestedRecords,\* SpecFlatten: nestedRecords of the XML flattener
    vi,           \* SpecFlatten: index i of the XML validation loop
    rows,         \* SpecFlatten: the rows sent to recordChan for the record
    fpc,          \* SpecFlatten: "read", "validate", "rows", "inserted"
    obj,          \* SpecFlatten: the row given to InsertRecordsUsingSchema
    keyOrder,     \* SpecFlatten: order in which the row's keys were ranged over
    stmt,         \* SpecFlatten: query and values handed to tx.Exec
    insErr,       \* SpecFlatten: error returned by InsertRecordsUsingSchema
    mu,           \* util.Counter.mu: the worker that holds it, or NoWorker
    ctmp,         \* the value of c.total a worker has read in Increment
    inputFile     \* SpecMain: "in_place", "copied" (also at the destination), "moved"

srcVars == <<loaderPc, crashed, sent, recordChan, recordClosed>>
dispVars == <<dispPc, dispRec>>
taskVars == <<taskChan, taskClosed>>
workerVars == <<wpc, werr, wtx, wbatch, everFailed, recvAfterFail, mapCalls, counter>>
resVars == <<resultChan, resultClosed, results>>
redVars == <<mainPc, ret, calls>>
txVars == <<txState, txRows>>
histVars == <<beginCalls, execLog, mapCount>>
\* variables of the other program variants
extVars == <<mode, workerCount, nRecords, idx, batch, emitted>>
\* variables of the flattener and the statement generator
flatVars == <<format, columns, rec, nestedRecords, vi, rows, fpc, obj, keyOrder, stmt,
              insErr>>
\* variables of util.Counter besides total
ctrVars == <<mu, ctmp>>
vars == <<srcVars, dispVars, taskVars, workerVars, resVars, redVars, txVars, histVars,
          extVars, flatVars, ctrVars, inputFile>>

\* the flattener and the statement generator have not run
FlatIdle ==
    /\ format = "none"
    /\ columns = {}
    /\ rec = <<>>
    /\ nestedRecords = <<>>
    /\ vi = 0
    /\ rows = <<>>
    /\ fpc = "idle"
    /\ obj = <<>>
    /\ keyOrder = <<>>
    /\ stmt = <<>>
    /\ insErr = "nil"

\* the transaction opened by worker w
TxOf(w) == w + 1

NoRet == [kind |-> "none", batch |-> -1]

\* ------------------------------------------------------------------------
\* ProcessMapResults (the reduce function / barrier)
\* ------------------------------------------------------------------------

\* one Commit or Rollback call: who called, on which transaction, its outcome
Call(op, t, ok, by) == [op |-> op, tx |-> t, ok |-> ok, by |-> by]

\* first loop of ProcessMapResults: hasError
HasError(rs) ==
    \E i \in 1 .. Len(rs) : rs[i].Tx = NilTx \/ rs[i].Err # NoErr

\* rollback loop: Rollback on every non-nil transaction, a failure is only logged
RECURSIVE RollbackLoop(_, _, _, _)
RollbackLoop(rs, i, rfail, acc) ==
    IF i > Len(rs) THEN acc
    ELSE IF rs[i].Tx # NilTx
         THEN RollbackLoop(rs, i + 1, rfail,
                           Append(acc, Call("Rollback", rs[i].Tx, rs[i].Tx \notin rfail, "reduce")))
         ELSE RollbackLoop(rs, i + 1, rfail, acc)

\* commit loop: Commit in slice order, return at the first failing Commit
RECURSIVE CommitLoop(_, _, _, _)
CommitLoop(rs, i, cfail, acc) ==
    IF i > Len(rs) THEN [ret |-> [kind |-> "nil", batch |-> -1], calls |-> acc]
    ELSE IF rs[i].Tx # NilTx
         THEN IF rs[i].Tx \in cfail
              THEN [ret |-> [kind |-> "commit_error", batch |-> rs[i].BatchID],
                    calls |-> Append(acc, Call("Commit", rs[i].Tx, FALSE, "reduce"))]
              ELSE CommitLoop(rs, i + 1, cfail,
                              Append(acc, Call("Commit", rs[i].Tx, TRUE, "reduce")))
         ELSE CommitLoop(rs, i + 1, cfail, acc)

\* mutant of RollbackAll: only the transactions of failed results are rolled back
RollbackAll_OnlyFailed(rs, rfail) ==
    RollbackLoop(SelectSeq(rs, LAMBDA r : r.Err # NoErr), 1, rfail, <<>>)

\* mutant of RollbackAll: the loop stops at the first failing Rollback
RollbackAll_StopOnFail(rs, rfail) ==
    LET all == RollbackLoop(rs, 1, rfail, <<>>)
        bad == {i \in 1 .. Len(all) : ~all[i].ok}
    IN  IF bad = {} THEN all
        ELSE SubSeq(all, 1, CHOOSE i \in bad : \A j \in bad : i <= j)

\* if hasError { for _, result := range results { ... Rollback ... } }
RollbackAll(rs, rfail) == RollbackLoop(rs, 1, rfail, <<>>)

\* mutant of CommitAll: the results are committed in ascending BatchID order
CommitAll_Sorted(rs, cfail) ==
    LET n == Len(rs)
        f == CHOOSE g \in [1 .. n -> 1 .. n] :
                 /\ \A i, j \in 1 .. n : i # j => g[i] # g[j]
                 /\ \A i, j \in 1 .. n : i < j => rs[g[i]].BatchID <= rs[g[j]].BatchID
    IN  CommitLoop([i \in 1 .. n |-> rs[f[i]]], 1, cfail, <<>>)

\* for _, result := range results { ... Commit ... }; return nil
CommitAll(rs, cfail) == CommitLoop(rs, 1, cfail, <<>>)

\* mutant of ProcessMapResults: every result is finalized on its own outcome
ProcessMapResults_PerResult(rs, cfail, rfail) ==
    LET one(r) == IF r.Tx = NilTx THEN <<>>
                  ELSE IF r.Err # NoErr
                       THEN <<Call("Rollback", r.Tx, r.Tx \notin rfail, "reduce")>>
                       ELSE <<Call("Commit", r.Tx, r.Tx \notin cfail, "reduce")>>
        F[i \in 0 .. Len(rs)] == IF i = 0 THEN <<>> ELSE F[i - 1] \o one(rs[i])
    IN  [ret |-> IF HasError(rs) THEN [kind |-> "map_error", batch |-> -1]
                 ELSE CommitAll(rs, cfail).ret,
         calls |-> F[Len(rs)]]

\* cfail / rfail: the transactions whose Commit / Rollback fails
ProcessMapResults(rs, cfail, rfail) ==
    IF HasError(rs)
    THEN [ret |-> [kind |-> "map_error", batch |-> -1],
          calls |-> RollbackAll(rs, rfail)]
    ELSE CommitAll(rs, cfail)

\* state of a transaction after a finalization call
AfterCall(c) ==
    IF c.op = "Commit"
    THEN (IF c.ok THEN "committed" ELSE "commit_failed")
    ELSE (IF c.ok THEN "rolledback" ELSE "rollback_failed")

\* the store after a sequence of finalization calls (last call on a transaction wins)
RECURSIVE ApplyCalls(_, _)
ApplyCalls(st, cs) ==
    IF cs = <<>> THEN st
    ELSE ApplyCalls([st EXCEPT ![Head(cs).tx] = AfterCall(Head(cs))], Tail(cs))

TxsOf(rs) == {rs[i].Tx : i \in 1 .. Len(rs)} \ {NilTx}

\* return reduceFunc(results)
Reduce ==
    /\ ~crashed
    /\ mainPc = "reduce"
    /\ \E cfail \in SUBSET TxsOf(results), rfail \in SUBSET TxsOf(results) :
          LET out == ProcessMapResults(results, cfail, rfail) IN
          /\ ret' = out.ret
          /\ calls' = calls \o out.calls
          /\ txState' = ApplyCalls(txState, out.calls)
    /\ mainPc' = "returned"
    /\ UNCHANGED <<inputFile, ctrVars, flatVars, histVars, extVars, srcVars, dispVars, taskVars, workerVars, resVars, txRows>>

\* ------------------------------------------------------------------------
\* MapReduceStreaming, one transaction per worker
\* ------------------------------------------------------------------------

\* fileLoader(recordChan) pushes the next record
LoaderSend ==
    /\ ~crashed
    /\ loaderPc = "run"
    /\ sent < MaxRecords
    /\ Len(recordChan) < RecordChanCap
    /\ recordChan' = Append(recordChan, sent + 1)
    /\ sent' = sent + 1
    /\ UNCHANGED <<inputFile, ctrVars, flatVars, histVars, extVars, loaderPc, crashed, recordClosed, dispVars, taskVars, workerVars,
                   resVars, redVars, txVars>>

\* fileLoader returns nil: close(recordChan)
LoaderReturnNil ==
    /\ ~crashed
    /\ loaderPc = "run"
    /\ recordClosed' = TRUE
    /\ loaderPc' = "done"
    /\ UNCHANGED <<inputFile, ctrVars, flatVars, histVars, extVars, crashed, sent, recordChan, dispVars, taskVars, workerVars,
                   resVars, redVars, txVars>>

\* fileLoader returns an error: close(recordChan) inside the if
LoaderReturnErr ==
    /\ ~crashed
    /\ loaderPc = "run"
    /\ recordClosed' = TRUE
    /\ loaderPc' = "closed"
    /\ UNCHANGED <<inputFile, ctrVars, flatVars, histVars, extVars, crashed, sent, recordChan, dispVars, taskVars, workerVars,
                   resVars, redVars, txVars>>

\* the close(recordChan) after the if, on a closed channel: panic
LoaderCloseAgain ==
    /\ ~crashed
    /\ loaderPc = "closed"
    /\ crashed' = TRUE
    /\ loaderPc' = "done"
    /\ UNCHANGED <<inputFile, ctrVars, flatVars, histVars, extVars, sent, recordChan, recordClosed, dispVars, taskVars, workerVars,
                   resVars, redVars, txVars>>

\* for record := range recordChan
DispRecv ==
    /\ ~crashed
    /\ dispPc = "recv"
    /\ recordChan # <<>>
    /\ dispRec' = Head(recordChan)
    /\ recordChan' = Tail(recordChan)
    /\ dispPc' = "send"
    /\ UNCHANGED <<inputFile, ctrVars, flatVars, histVars, extVars, loaderPc, crashed, sent, recordClosed, taskVars, workerVars,
                   resVars, redVars, txVars>>

\* mutant of DispSend: a non-blocking send, the record is dropped when the
\* task channel is not empty
DispSend_DropWhenBusy ==
    /\ ~crashed
    /\ dispPc = "send"
    /\ taskChan' = IF taskChan = <<>> THEN Append(taskChan, dispRec) ELSE taskChan
    /\ dispRec' = 0
    /\ dispPc' = "recv"
    /\ UNCHANGED <<inputFile, ctrVars, flatVars, histVars, extVars, srcVars, taskClosed, workerVars, resVars, redVars, txVars>>

\* taskChan <- record
DispSend ==
    /\ ~crashed
    /\ dispPc = "send"
    /\ Len(taskChan) < TaskChanCap
    /\ taskChan' = Append(taskChan, dispRec)
    /\ dispRec' = 0
    /\ dispPc' = "recv"
    /\ UNCHANGED <<inputFile, ctrVars, flatVars, histVars, extVars, srcVars, taskClosed, workerVars, resVars, redVars, txVars>>

\* recordChan closed and drained: defer close(taskChan)
DispClose ==
    /\ ~crashed
    /\ dispPc = "recv"
    /\ recordChan = <<>>
    /\ recordClosed
    /\ taskClosed' = TRUE
    /\ dispPc' = "done"
    /\ UNCHANGED <<inputFile, ctrVars, flatVars, histVars, extVars, srcVars, dispRec, taskChan, workerVars, resVars, redVars, txVars>>

\* mutant of WorkerBeginOk: the workers share one transaction
WorkerBeginOk_SharedTx(w) ==
    /\ ~crashed
    /\ wpc[w] = "begin"
    /\ wtx' = [wtx EXCEPT ![w] = TxOf(0)]
    /\ werr' = [werr EXCEPT ![w] = NoErr]
    /\ txState' = [txState EXCEPT ![TxOf(0)] = "open"]
    /\ wpc' = [wpc EXCEPT ![w] = "loop"]
    /\ beginCalls' = [beginCalls EXCEPT ![w] = @ + 1]
    /\ UNCHANGED <<execLog, mapCount>>
    /\ UNCHANGED <<inputFile, ctrVars, flatVars, extVars, srcVars, dispVars, taskVars, wbatch, everFailed, recvAfterFail,
                   mapCalls, counter, resVars, redVars, txRows>>

\* tx, err := db.Begin() succeeds
WorkerBeginOk(w) ==
    /\ ~crashed
    /\ wpc[w] = "begin"
    /\ wtx' = [wtx EXCEPT ![w] = TxOf(w)]
    /\ werr' = [werr EXCEPT ![w] = NoErr]
    /\ txState' = [txState EXCEPT ![TxOf(w)] = "open"]
    /\ wpc' = [wpc EXCEPT ![w] = "loop"]
    /\ /\ beginCalls' = [beginCalls EXCEPT ![w] = @ + 1]
    /\ UNCHANGED <<execLog, mapCount>>
    /\ UNCHANGED <<inputFile, ctrVars, flatVars, extVars, srcVars, dispVars, taskVars, wbatch, everFailed, recvAfterFail,
                   mapCalls, counter, resVars, redVars, txRows>>

\* mutant of WorkerBeginFail: the return is missing, the worker enters the loop
WorkerBeginFail_NoReturn(w) ==
    /\ ~crashed
    /\ wpc[w] = "begin"
    /\ wtx' = [wtx EXCEPT ![w] = NilTx]
    /\ werr' = [werr EXCEPT ![w] = BeginErr]
    /\ wpc' = [wpc EXCEPT ![w] = "loop"]
    /\ /\ beginCalls' = [beginCalls EXCEPT ![w] = @ + 1]
    /\ UNCHANGED <<execLog, mapCount>>
    /\ UNCHANGED <<inputFile, ctrVars, flatVars, extVars, srcVars, dispVars, taskVars, wbatch, everFailed, recvAfterFail,
                   mapCalls, counter, resVars, redVars, txVars>>

\* mutant of WorkerBeginFail: the worker returns without sending a result
WorkerBeginFail_NoResult(w) ==
    /\ ~crashed
    /\ wpc[w] = "begin"
    /\ wtx' = [wtx EXCEPT ![w] = NilTx]
    /\ werr' = [werr EXCEPT ![w] = BeginErr]
    /\ wpc' = [wpc EXCEPT ![w] = "sent"]
    /\ /\ beginCalls' = [beginCalls EXCEPT ![w] = @ + 1]
    /\ UNCHANGED <<execLog, mapCount>>
    /\ UNCHANGED <<inputFile, ctrVars, flatVars, extVars, srcVars, dispVars, taskVars, wbatch, everFailed, recvAfterFail,
                   mapCalls, counter, resVars, redVars, txVars>>

\* db.Begin() fails: the worker goes to send {batchID, err, nil} and return
WorkerBeginFail(w) ==
    /\ ~crashed
    /\ wpc[w] = "begin"
    /\ wtx' = [wtx EXCEPT ![w] = NilTx]
    /\ werr' = [werr EXCEPT ![w] = BeginErr]
    /\ wpc' = [wpc EXCEPT ![w] = "emit"]
    /\ /\ beginCalls' = [beginCalls EXCEPT ![w] = @ + 1]
    /\ UNCHANGED <<execLog, mapCount>>
    /\ UNCHANGED <<inputFile, ctrVars, flatVars, extVars, srcVars, dispVars, taskVars, wbatch, everFailed, recvAfterFail,
                   mapCalls, counter, resVars, redVars, txVars>>

\* for batch := range taskChan
WorkerRecv(w) ==
    /\ ~crashed
    /\ wpc[w] = "loop"
    /\ taskChan # <<>>
    /\ wbatch' = [wbatch EXCEPT ![w] = Head(taskChan)]
    /\ taskChan' = Tail(taskChan)
    /\ recvAfterFail' = [recvAfterFail EXCEPT ![w] = IF everFailed[w] THEN @ + 1 ELSE @]
    /\ wpc' = [wpc EXCEPT ![w] = "map"]
    /\ UNCHANGED <<inputFile, ctrVars, flatVars, histVars, extVars, srcVars, dispVars, taskClosed, werr, wtx, everFailed, mapCalls,
                   counter, resVars, redVars, txVars>>

\* mutant of WorkerMapOk: the worker commits its transaction when mapFunc succeeds
WorkerMapOk_Commit(w) ==
    /\ ~crashed
    /\ wpc[w] = "map"
    /\ werr' = [werr EXCEPT ![w] = NoErr]
    /\ txRows' = [txRows EXCEPT ![wtx[w]] = @ \cup {wbatch[w]}]
    /\ txState' = [txState EXCEPT ![wtx[w]] = "committed"]
    /\ calls' = Append(calls, Call("Commit", wtx[w], TRUE, "worker"))
    /\ mapCalls' = [mapCalls EXCEPT ![w] = @ + 1]
    /\ counter' = counter + 1
    /\ wbatch' = [wbatch EXCEPT ![w] = 0]
    /\ wpc' = [wpc EXCEPT ![w] = "loop"]
    /\ /\ execLog' = execLog \cup {<<w, wtx[w]>>}
    /\ mapCount' = [mapCount EXCEPT ![wbatch[w]] = @ + 1]
    /\ UNCHANGED beginCalls
    /\ UNCHANGED <<inputFile, ctrVars, flatVars, extVars, srcVars, dispVars, taskVars, wtx, everFailed, recvAfterFail,
                   resVars, mainPc, ret>>

\* err = mapFunc(tx, tableName, batch) returns nil; counter.Increment(1)
WorkerMapOk(w) ==
    /\ ~crashed
    /\ wpc[w] = "map"
    /\ werr' = [werr EXCEPT ![w] = NoErr]
    /\ txRows' = [txRows EXCEPT ![wtx[w]] = @ \cup {wbatch[w]}]
    /\ mapCalls' = [mapCalls EXCEPT ![w] = @ + 1]
    /\ counter' = counter + 1
    /\ wbatch' = [wbatch EXCEPT ![w] = 0]
    /\ wpc' = [wpc EXCEPT ![w] = "loop"]
    /\ /\ execLog' = execLog \cup {<<w, wtx[w]>>}
    /\ mapCount' = [mapCount EXCEPT ![wbatch[w]] = @ + 1]
    /\ UNCHANGED beginCalls
    /\ UNCHANGED <<inputFile, ctrVars, flatVars, extVars, srcVars, dispVars, taskVars, wtx, everFailed, recvAfterFail,
                   resVars, redVars, txState>>

\* err = mapFunc(tx, tableName, batch) returns an error; continue
WorkerMapFail(w) ==
    /\ ~crashed
    /\ wpc[w] = "map"
    /\ werr' = [werr EXCEPT ![w] = InsertErr]
    /\ everFailed' = [everFailed EXCEPT ![w] = TRUE]
    /\ mapCalls' = [mapCalls EXCEPT ![w] = @ + 1]
    /\ wbatch' = [wbatch EXCEPT ![w] = 0]
    /\ wpc' = [wpc EXCEPT ![w] = "loop"]
    /\ /\ execLog' = execLog \cup {<<w, wtx[w]>>}
    /\ mapCount' = [mapCount EXCEPT ![wbatch[w]] = @ + 1]
    /\ UNCHANGED beginCalls
    /\ UNCHANGED <<inputFile, ctrVars, flatVars, extVars, srcVars, dispVars, taskVars, wtx, recvAfterFail, counter,
                   resVars, redVars, txVars>>

\* taskChan closed and drained: the range loop ends
WorkerExit(w) ==
    /\ ~crashed
    /\ wpc[w] = "loop"
    /\ taskChan = <<>>
    /\ taskClosed
    /\ wpc' = [wpc EXCEPT ![w] = "emit"]
    /\ UNCHANGED <<inputFile, ctrVars, flatVars, histVars, extVars, srcVars, dispVars, taskVars, werr, wtx, wbatch, everFailed,
                   recvAfterFail, mapCalls, counter, resVars, redVars, txVars>>

\* capacity of resultChan: 20, which is below workerCount only for more
\* than 20 workers; the runs that stand for such a workerCount ("tight")
\* have the proportion scaled down to W workers and W - 1 places
ResultChanSize == IF mode = "tight" THEN W - 1 ELSE ResultChanCap

\* mutant of WorkerEmit: the send does not block, the result is dropped when
\* resultChan is full
WorkerEmit_DropWhenFull(w) ==
    /\ ~crashed
    /\ wpc[w] = "emit"
    /\ resultChan' = IF Len(resultChan) < ResultChanSize
                        THEN Append(resultChan, MapResult(w, werr[w], wtx[w]))
                        ELSE resultChan
    /\ wpc' = [wpc EXCEPT ![w] = "sent"]
    /\ UNCHANGED <<inputFile, ctrVars, flatVars, histVars, extVars, srcVars, dispVars, taskVars, werr, wtx, wbatch, everFailed,
                   recvAfterFail, mapCalls, counter, resultClosed, results, redVars, txVars>>

\* resultChan <- MapResult{BatchID: batchID, Err: err, Tx: tx}
WorkerEmit(w) ==
    /\ ~crashed
    /\ wpc[w] = "emit"
    /\ Len(resultChan) < ResultChanSize
    /\ resultChan' = Append(resultChan, MapResult(w, werr[w], wtx[w]))
    /\ wpc' = [wpc EXCEPT ![w] = "sent"]
    /\ UNCHANGED <<inputFile, ctrVars, flatVars, histVars, extVars, srcVars, dispVars, taskVars, werr, wtx, wbatch, everFailed,
                   recvAfterFail, mapCalls, counter, resultClosed, results, redVars, txVars>>

\* defer wg.Done()
WorkerDone(w) ==
    /\ ~crashed
    /\ wpc[w] = "sent"
    /\ wpc' = [wpc EXCEPT ![w] = "done"]
    /\ UNCHANGED <<inputFile, ctrVars, flatVars, histVars, extVars, srcVars, dispVars, taskVars, werr, wtx, wbatch, everFailed,
                   recvAfterFail, mapCalls, counter, resVars, redVars, txVars>>

\* mutant of WaitDone: the forwarding goroutine is in the wait group too
WaitDone_WithForwarder == (\A w \in Workers : wpc[w] = "done") /\ dispPc = "done"

\* mutant of WaitDone: the wait returns as soon as one worker is done
WaitDone_Any == \E w \in Workers : wpc[w] = "done"

\* wg.Wait() returns
WaitDone == \A w \in Workers : wpc[w] = "done"

\* wg.Wait(); close(resultChan)
CloseResults ==
    /\ ~crashed
    /\ ~resultClosed
    /\ WaitDone
    /\ resultClosed' = TRUE
    /\ UNCHANGED <<inputFile, ctrVars, flatVars, histVars, extVars, srcVars, dispVars, taskVars, workerVars, resultChan, results,
                   redVars, txVars>>

\* for result := range resultChan { results = append(results, result) }
Collect ==
    /\ ~crashed
    /\ mainPc = "collect"
    /\ resultChan # <<>>
    /\ results' = Append(results, Head(resultChan))
    /\ resultChan' = Tail(resultChan)
    /\ UNCHANGED <<inputFile, ctrVars, flatVars, histVars, extVars, srcVars, dispVars, taskVars, workerVars, resultClosed, redVars, txVars>>

\* resultChan closed and drained: the collecting loop ends
CollectEnd ==
    /\ ~crashed
    /\ mainPc = "collect"
    /\ resultChan = <<>>
    /\ resultClosed
    /\ mainPc' = "reduce"
    /\ UNCHANGED <<inputFile, ctrVars, flatVars, histVars, extVars, srcVars, dispVars, taskVars, workerVars, resVars, ret, calls, txVars>>

Init ==
    /\ loaderPc = "run"
    /\ crashed = FALSE
    /\ sent = 0
    /\ recordChan = <<>>
    /\ recordClosed = FALSE
    /\ dispPc = "recv"
    /\ dispRec = 0
    /\ taskChan = <<>>
    /\ taskClosed = FALSE
    /\ wpc = [w \in Workers |-> "begin"]
    /\ werr = [w \in Workers |-> NoErr]
    /\ wtx = [w \in Workers |-> NilTx]
    /\ wbatch = [w \in Workers |-> 0]
    /\ everFailed = [w \in Workers |-> FALSE]
    /\ recvAfterFail = [w \in Workers |-> 0]
    /\ mapCalls = [w \in Workers |-> 0]
    /\ counter = 0
    /\ mu = NoWorker
    /\ ctmp = [w \in Workers |-> 0]
    /\ inputFile = "in_place"
    /\ resultChan = <<>>
    /\ resultClosed = FALSE
    /\ results = <<>>
    /\ mainPc = "collect"
    /\ ret = NoRet
    /\ txState = [t \in TxIds |-> "none"]
    /\ txRows = [t \in TxIds |-> {}]
    /\ calls = <<>>
    /\ beginCalls = [w \in Workers |-> 0]
    /\ execLog = {}
    /\ mapCount = [r \in Records |-> 0]
    /\ FlatIdle
    /\ mode = "none"
    /\ workerCount = W
    /\ nRecords = 0
    /\ idx = 0
    /\ batch = <<>>
    /\ emitted = <<>>

Next ==
    \/ LoaderSend
    \/ LoaderReturnNil
    \/ LoaderReturnErr
    \/ LoaderCloseAgain
    \/ DispRecv
    \/ DispSend
    \/ DispClose
    \/ \E w \in Workers : WorkerBeginOk(w)
    \/ \E w \in Workers : WorkerBeginFail(w)
    \/ \E w \in Workers : WorkerRecv(w)
    \/ \E w \in Workers : WorkerMapOk(w)
    \/ \E w \in Workers : WorkerMapFail(w)
    \/ \E w \in Workers : WorkerExit(w)
    \/ \E w \in Workers : WorkerEmit(w)
    \/ \E w \in Workers : WorkerDone(w)
    \/ CloseResults
    \/ Collect
    \/ CollectEnd
    \/ Reduce

Spec == Init /\ [][Next]_vars

\* the same run with more workers than resultChan has places
InitTight ==
    /\ loaderPc = "run"
    /\ crashed = FALSE
    /\ sent = 0
    /\ recordChan = <<>>
    /\ recordClosed = FALSE
    /\ dispPc = "recv"
    /\ dispRec = 0
    /\ taskChan = <<>>
    /\ taskClosed = FALSE
    /\ wpc = [w \in Workers |-> "begin"]
    /\ werr = [w \in Workers |-> NoErr]
    /\ wtx = [w \in Workers |-> NilTx]
    /\ wbatch = [w \in Workers |-> 0]
    /\ everFailed = [w \in Workers |-> FALSE]
    /\ recvAfterFail = [w \in Workers |-> 0]
    /\ mapCalls = [w \in Workers |-> 0]
    /\ counter = 0
    /\ mu = NoWorker
    /\ ctmp = [w \in Workers |-> 0]
    /\ inputFile = "in_place"
    /\ resultChan = <<>>
    /\ resultClosed = FALSE
    /\ results = <<>>
    /\ mainPc = "collect"
    /\ ret = NoRet
    /\ txState = [t \in TxIds |-> "none"]
    /\ txRows = [t \in TxIds |-> {}]
    /\ calls = <<>>
    /\ beginCalls = [w \in Workers |-> 0]
    /\ execLog = {}
    /\ mapCount = [r \in Records |-> 0]
    /\ FlatIdle
    /\ mode = "tight"
    /\ workerCount = W
    /\ nRecords = 0
    /\ idx = 0
    /\ batch = <<>>
    /\ emitted = <<>>

SpecTight == InitTight /\ [][Next]_vars

\* ------------------------------------------------------------------------
\* Termination of MapReduceStreaming, one transaction per worker.  A run is
\* either a source of at most MaxTermRecords records against a store in which
\* every call may fail ("anyfail"), or a source of MaxStreamRecords records,
\* more than the task channel holds, against a store that refuses every
\* Begin ("refuse").
\* ------------------------------------------------------------------------

\* the largest number of records of the source of a run
SourceLimit ==
    IF mode = "refuse" THEN MaxStreamRecords
    ELSE IF mode = "count" THEN MaxCounterRecords
    ELSE MaxTermRecords

\* fileLoader(recordChan) pushes the next record
TermLoaderSend ==
    /\ ~crashed
    /\ loaderPc = "run"
    /\ sent < SourceLimit
    /\ Len(recordChan) < RecordChanCap
    /\ recordChan' = Append(recordChan, sent + 1)
    /\ sent' = sent + 1
    /\ UNCHANGED <<inputFile, ctrVars, flatVars, histVars, extVars, loaderPc, crashed, recordClosed, dispVars, taskVars, workerVars,
                   resVars, redVars, txVars>>

InitTerm ==
    /\ loaderPc = "run"
    /\ crashed = FALSE
    /\ sent = 0
    /\ recordChan = <<>>
    /\ recordClosed = FALSE
    /\ dispPc = "recv"
    /\ dispRec = 0
    /\ taskChan = <<>>
    /\ taskClosed = FALSE
    /\ wpc = [w \in Workers |-> "begin"]
    /\ werr = [w \in Workers |-> NoErr]
    /\ wtx = [w \in Workers |-> NilTx]
    /\ wbatch = [w \in Workers |-> 0]
    /\ everFailed = [w \in Workers |-> FALSE]
    /\ recvAfterFail = [w \in Workers |-> 0]
    /\ mapCalls = [w \in Workers |-> 0]
    /\ counter = 0
    /\ mu = NoWorker
    /\ ctmp = [w \in Workers |-> 0]
    /\ inputFile = "in_place"
    /\ resultChan = <<>>
    /\ resultClosed = FALSE
    /\ results = <<>>
    /\ mainPc = "collect"
    /\ ret = NoRet
    /\ txState = [t \in TxIds |-> "none"]
    /\ txRows = [t \in TxIds |-> {}]
    /\ calls = <<>>
    /\ beginCalls = [w \in Workers |-> 0]
    /\ execLog = {}
    /\ mapCount = [r \in Records |-> 0]
    /\ FlatIdle
    /\ mode \in {"anyfail", "refuse"}
    /\ workerCount = W
    /\ nRecords = 0
    /\ idx = 0
    /\ batch = <<>>
    /\ emitted = <<>>

\* the source of the run returns after its last record: the long source
\* has MaxStreamRecords records, the other sources any number up to
\* MaxTermRecords
SourceReturns == mode = "refuse" => sent = MaxStreamRecords

NextTerm ==
    \/ TermLoaderSend
    \/ (SourceReturns /\ LoaderReturnNil)
    \/ (SourceReturns /\ LoaderReturnErr)
    \/ LoaderCloseAgain
    \/ DispRecv
    \/ DispSend
    \/ DispClose
    \/ \E w \in Workers : mode = "anyfail" /\ WorkerBeginOk(w)
    \/ \E w \in Workers : WorkerBeginFail(w)
    \/ \E w \in Workers : WorkerRecv(w)
    \/ \E w \in Workers : WorkerMapOk(w)
    \/ \E w \in Workers : WorkerMapFail(w)
    \/ \E w \in Workers : WorkerExit(w)
    \/ \E w \in Workers : WorkerEmit(w)
    \/ \E w \in Workers : WorkerDone(w)
    \/ CloseResults
    \/ Collect
    \/ CollectEnd
    \/ Reduce

\* the scheduler runs every goroutine that can take a step: as long as some
\* step is possible, a step is taken
SpecTerm == InitTerm /\ [][NextTerm]_vars /\ WF_vars(NextTerm)

\* ------------------------------------------------------------------------
\* The same run with Counter.Increment taken step by step: Lock, the read
\* and the write of c.total += count, and the deferred Unlock.
\* ------------------------------------------------------------------------

\* err = mapFunc(tx, tableName, batch) returns nil; the worker goes on to
\* counter.Increment(1)
CounterWorkerMapOk(w) ==
    /\ ~crashed
    /\ wpc[w] = "map"
    /\ werr' = [werr EXCEPT ![w] = NoErr]
    /\ txRows' = [txRows EXCEPT ![wtx[w]] = @ \cup {wbatch[w]}]
    /\ mapCalls' = [mapCalls EXCEPT ![w] = @ + 1]
    /\ wbatch' = [wbatch EXCEPT ![w] = 0]
    /\ wpc' = [wpc EXCEPT ![w] = "lock"]
    /\ execLog' = execLog \cup {<<w, wtx[w]>>}
    /\ mapCount' = [mapCount EXCEPT ![wbatch[w]] = @ + 1]
    /\ UNCHANGED beginCalls
    /\ UNCHANGED <<inputFile, ctrVars, flatVars, extVars, srcVars, dispVars, taskVars, wtx, everFailed,
                   recvAfterFail, counter, resVars, redVars, txState>>

\* mutant of CounterLock: Increment without the mutex
CounterLock_NoMutex(w) ==
    /\ ~crashed
    /\ wpc[w] = "lock"
    /\ wpc' = [wpc EXCEPT ![w] = "read"]
    /\ UNCHANGED <<inputFile, ctrVars, flatVars, histVars, extVars, srcVars, dispVars, taskVars, werr, wtx,
                   wbatch, everFailed, recvAfterFail, mapCalls, counter, resVars,
                   redVars, txVars>>

\* c.mu.Lock(): waits until no worker holds the mutex
CounterLock(w) ==
    /\ ~crashed
    /\ wpc[w] = "lock"
    /\ mu = NoWorker
    /\ mu' = w
    /\ wpc' = [wpc EXCEPT ![w] = "read"]
    /\ UNCHANGED <<inputFile, ctmp, flatVars, histVars, extVars, srcVars, dispVars, taskVars, werr, wtx,
                   wbatch, everFailed, recvAfterFail, mapCalls, counter, resVars,
                   redVars, txVars>>

\* c.total += count: the read of c.total
CounterRead(w) ==
    /\ ~crashed
    /\ wpc[w] = "read"
    /\ ctmp' = [ctmp EXCEPT ![w] = counter]
    /\ wpc' = [wpc EXCEPT ![w] = "write"]
    /\ UNCHANGED <<inputFile, mu, flatVars, histVars, extVars, srcVars, dispVars, taskVars, werr, wtx,
                   wbatch, everFailed, recvAfterFail, mapCalls, counter, resVars,
                   redVars, txVars>>

\* c.total += count: the write of c.total
CounterWrite(w) ==
    /\ ~crashed
    /\ wpc[w] = "write"
    /\ counter' = ctmp[w] + 1
    /\ ctmp' = [ctmp EXCEPT ![w] = 0]
    /\ wpc' = [wpc EXCEPT ![w] = "unlock"]
    /\ UNCHANGED <<inputFile, mu, flatVars, histVars, extVars, srcVars, dispVars, taskVars, werr, wtx,
                   wbatch, everFailed, recvAfterFail, mapCalls, resVars, redVars,
                   txVars>>

\* defer c.mu.Unlock(); the worker returns to the range over taskChan
CounterUnlock(w) ==
    /\ ~crashed
    /\ wpc[w] = "unlock"
    /\ mu' = (IF mu = w THEN NoWorker ELSE mu)
    /\ wpc' = [wpc EXCEPT ![w] = "loop"]
    /\ UNCHANGED <<inputFile, ctmp, flatVars, histVars, extVars, srcVars, dispVars, taskVars, werr, wtx,
                   wbatch, everFailed, recvAfterFail, mapCalls, counter, resVars,
                   redVars, txVars>>

InitCounter ==
    /\ loaderPc = "run"
    /\ crashed = FALSE
    /\ sent = 0
    /\ recordChan = <<>>
    /\ recordClosed = FALSE
    /\ dispPc = "recv"
    /\ dispRec = 0
    /\ taskChan = <<>>
    /\ taskClosed = FALSE
    /\ wpc = [w \in Workers |-> "begin"]
    /\ werr = [w \in Workers |-> NoErr]
    /\ wtx = [w \in Workers |-> NilTx]
    /\ wbatch = [w \in Workers |-> 0]
    /\ everFailed = [w \in Workers |-> FALSE]
    /\ recvAfterFail = [w \in Workers |-> 0]
    /\ mapCalls = [w \in Workers |-> 0]
    /\ counter = 0
    /\ mu = NoWorker
    /\ ctmp = [w \in Workers |-> 0]
    /\ inputFile = "in_place"
    /\ resultChan = <<>>
    /\ resultClosed = FALSE
    /\ results = <<>>
    /\ mainPc = "collect"
    /\ ret = NoRet
    /\ txState = [t \in TxIds |-> "none"]
    /\ txRows = [t \in TxIds |-> {}]
    /\ calls = <<>>
    /\ beginCalls = [w \in Workers |-> 0]
    /\ execLog = {}
    /\ mapCount = [r \in Records |-> 0]
    /\ FlatIdle
    /\ mode = "count"
    /\ workerCount = W
    /\ nRecords = 0
    /\ idx = 0
    /\ batch = <<>>
    /\ emitted = <<>>

NextCounter ==
    \/ TermLoaderSend
    \/ LoaderReturnNil
    \/ LoaderReturnErr
    \/ LoaderCloseAgain
    \/ DispRecv
    \/ DispSend
    \/ DispClose
    \/ \E w \in Workers : WorkerBeginOk(w)
    \/ \E w \in Workers : WorkerBeginFail(w)
    \/ \E w \in Workers : WorkerRecv(w)
    \/ \E w \in Workers : CounterWorkerMapOk(w)
    \/ \E w \in Workers : CounterLock(w)
    \/ \E w \in Workers : CounterRead(w)
    \/ \E w \in Workers : CounterWrite(w)
    \/ \E w \in Workers : CounterUnlock(w)
    \/ \E w \in Workers : WorkerMapFail(w)
    \/ \E w \in Workers : WorkerExit(w)
    \/ \E w \in Workers : WorkerEmit(w)
    \/ \E w \in Workers : WorkerDone(w)
    \/ CloseResults
    \/ Collect
    \/ CollectEnd
    \/ Reduce

SpecCounter == InitCounter /\ [][NextCounter]_vars

\* ------------------------------------------------------------------------
\* main after MapReduceStreaming: the process ends on an error, the input
\* file is moved to the destination folder on success
\* ------------------------------------------------------------------------

\* if err != nil { app.Logger.Fatal(...) }: the process exits
MainFatal ==
    /\ ~crashed
    /\ mainPc = "returned"
    /\ ret.kind # "nil"
    /\ mainPc' = "exited"
    /\ UNCHANGED <<inputFile, ctrVars, flatVars, histVars, extVars, srcVars, dispVars, taskVars,
                   workerVars, resVars, ret, calls, txVars>>

\* err == nil: the success is logged and MoveInputFile is called
MainSucceeded ==
    /\ ~crashed
    /\ mainPc = "returned"
    /\ ret.kind = "nil"
    /\ mainPc' = "move"
    /\ UNCHANGED <<inputFile, ctrVars, flatVars, histVars, extVars, srcVars, dispVars, taskVars,
                   workerVars, resVars, ret, calls, txVars>>

\* MoveInputFile up to io.Copy: the destination folder is made, the file is
\* copied into it; when a step fails the error is returned and logged
MoveCopy(ok) ==
    /\ ~crashed
    /\ mainPc = "move"
    /\ inputFile' = (IF ok THEN "copied" ELSE inputFile)
    /\ mainPc' = (IF ok THEN "remove" ELSE "exited")
    /\ UNCHANGED <<ctrVars, flatVars, histVars, extVars, srcVars, dispVars, taskVars,
                   workerVars, resVars, ret, calls, txVars>>

\* os.RemoveAll(inputFile): the original is removed; when it fails the error
\* is returned and logged
MoveRemove(ok) ==
    /\ ~crashed
    /\ mainPc = "remove"
    /\ inputFile' = (IF ok THEN "moved" ELSE inputFile)
    /\ mainPc' = "exited"
    /\ UNCHANGED <<ctrVars, flatVars, histVars, extVars, srcVars, dispVars, taskVars,
                   workerVars, resVars, ret, calls, txVars>>

InitMain ==
    /\ loaderPc = "run"
    /\ crashed = FALSE
    /\ sent = 0
    /\ recordChan = <<>>
    /\ recordClosed = FALSE
    /\ dispPc = "recv"
    /\ dispRec = 0
    /\ taskChan = <<>>
    /\ taskClosed = FALSE
    /\ wpc = [w \in Workers |-> "begin"]
    /\ werr = [w \in Workers |-> NoErr]
    /\ wtx = [w \in Workers |-> NilTx]
    /\ wbatch = [w \in Workers |-> 0]
    /\ everFailed = [w \in Workers |-> FALSE]
    /\ recvAfterFail = [w \in Workers |-> 0]
    /\ mapCalls = [w \in Workers |-> 0]
    /\ counter = 0
    /\ mu = NoWorker
    /\ ctmp = [w \in Workers |-> 0]
    /\ inputFile = "in_place"
    /\ resultChan = <<>>
    /\ resultClosed = FALSE
    /\ results = <<>>
    /\ mainPc = "collect"
    /\ ret = NoRet
    /\ txState = [t \in TxIds |-> "none"]
    /\ txRows = [t \in TxIds |-> {}]
    /\ calls = <<>>
    /\ beginCalls = [w \in Workers |-> 0]
    /\ execLog = {}
    /\ mapCount = [r \in Records |-> 0]
    /\ FlatIdle
    /\ mode = "main"
    /\ workerCount = W
    /\ nRecords = 0
    /\ idx = 0
    /\ batch = <<>>
    /\ emitted = <<>>

NextMain ==
    \/ Next
    \/ MainFatal
    \/ MainSucceeded
    \/ MoveCopy(TRUE)
    \/ MoveCopy(FALSE)
    \/ MoveRemove(TRUE)
    \/ MoveRemove(FALSE)

SpecMain == InitMain /\ [][NextMain]_vars

\* ------------------------------------------------------------------------
\* ProcessMapResults on an arbitrary result list
\* ------------------------------------------------------------------------

\* result lists of length n: the i-th result holds transaction i or none
ResultLists(n) ==
    [1 .. n -> [BatchID : 0 .. (MaxResults - 1), Err : Errs, Tx : {NilTx} \cup TxIds]]

InitReduce ==
    /\ loaderPc = "done"
    /\ crashed = FALSE
    /\ sent = 0
    /\ recordChan = <<>>
    /\ recordClosed = TRUE
    /\ dispPc = "done"
    /\ dispRec = 0
    /\ taskChan = <<>>
    /\ taskClosed = TRUE
    /\ wpc = [w \in Workers |-> "done"]
    /\ werr = [w \in Workers |-> NoErr]
    /\ wtx = [w \in Workers |-> NilTx]
    /\ wbatch = [w \in Workers |-> 0]
    /\ everFailed = [w \in Workers |-> FALSE]
    /\ recvAfterFail = [w \in Workers |-> 0]
    /\ mapCalls = [w \in Workers |-> 0]
    /\ counter = 0
    /\ mu = NoWorker
    /\ ctmp = [w \in Workers |-> 0]
    /\ inputFile = "in_place"
    /\ resultChan = <<>>
    /\ resultClosed = TRUE
    /\ \E n \in 0 .. MaxResults :
          /\ results \in ResultLists(n)
          /\ \A i \in 1 .. n : /\ results[i].BatchID = i - 1
                               /\ results[i].Tx \in {NilTx, i}
    /\ mainPc = "reduce"
    /\ ret = NoRet
    /\ txState = [t \in TxIds |-> IF t \in TxsOf(results) THEN "open" ELSE "none"]
    /\ txRows = [t \in TxIds |-> {}]
    /\ calls = <<>>
    /\ beginCalls = [w \in Workers |-> 0]
    /\ execLog = {}
    /\ mapCount = [r \in Records |-> 0]
    /\ FlatIdle
    /\ mode = "none"
    /\ workerCount = W
    /\ nRecords = 0
    /\ idx = 0
    /\ batch = <<>>
    /\ emitted = <<>>

NextReduce == Reduce

SpecReduce == InitReduce /\ [][NextReduce]_vars

\* ------------------------------------------------------------------------
\* The dispatchers: batching of MapReduce and MapReduceStreaming
\* ------------------------------------------------------------------------

\* records[i:end] of the bulk input, records numbered from 1
Slice(i, end) == [k \in 1 .. (end - i) |-> i + k]

\* batchSize := (len(records) + workerCount - 1) / workerCount, off by one
BatchSize_OffByOne(n, w) == (n + w) \div w

\* batchSize := (len(records) + workerCount - 1) / workerCount
BatchSize(n, w) == (n + w - 1) \div w

\* end := i + batchSize without the clamp to len(records)
SliceEnd_NoClamp(i, size, n) == i + size

\* end := i + batchSize; if end > len(records) { end = len(records) }
SliceEnd(i, size, n) == IF i + size > n THEN n ELSE i + size

\* capacity of taskChan: workerCount in MapReduce, 20 in MapReduceStreaming
TaskCap == IF mode = "bulk" THEN workerCount ELSE TaskChanCap

\* taskChan <- b
SendTask_NoBackpressure(b) ==
    /\ taskChan' = Append(taskChan, b)
    /\ emitted' = Append(emitted, b)

\* taskChan <- b: blocks while the channel is full
SendTask(b) ==
    /\ Len(taskChan) < TaskCap
    /\ taskChan' = Append(taskChan, b)
    /\ emitted' = Append(emitted, b)

\* one iteration of the bulk loop: taskChan <- records[i:end]; i += batchSize
BulkSend ==
    /\ mode = "bulk"
    /\ dispPc = "bulk"
    /\ idx < nRecords
    /\ LET size == BatchSize(nRecords, workerCount)
           end == SliceEnd(idx, size, nRecords)
       IN /\ SendTask(Slice(idx, end))
          /\ idx' = idx + size
    /\ UNCHANGED <<inputFile, ctrVars, flatVars, histVars, mode, workerCount, nRecords, batch, srcVars, dispVars,
                   taskClosed, workerVars, resVars, redVars, txVars>>

\* the bulk loop ends: close(taskChan)
BulkClose ==
    /\ mode = "bulk"
    /\ dispPc = "bulk"
    /\ idx >= nRecords
    /\ taskClosed' = TRUE
    /\ dispPc' = "done"
    /\ UNCHANGED <<inputFile, ctrVars, flatVars, histVars, extVars, srcVars, dispRec, taskChan, workerVars,
                   resVars, redVars, txVars>>

\* the source sends the next record into recordChan
SourceSend ==
    /\ mode = "stream"
    /\ ~crashed
    /\ loaderPc = "run"
    /\ sent < MaxStreamRecords
    /\ Len(recordChan) < RecordChanCap
    /\ sent' = sent + 1
    /\ recordChan' = Append(recordChan, sent + 1)
    /\ UNCHANGED <<inputFile, ctrVars, flatVars, histVars, extVars, loaderPc, crashed, recordClosed, dispVars,
                   taskVars, workerVars, resVars, redVars, txVars>>

\* for record := range recordChan { batch = append(batch, record) ... }
BatchRecv ==
    /\ mode = "stream"
    /\ ~crashed
    /\ dispPc = "recv"
    /\ recordChan # <<>>
    /\ batch' = Append(batch, Head(recordChan))
    /\ recordChan' = Tail(recordChan)
    /\ dispPc' = IF Len(batch') >= workerCount THEN "send" ELSE "recv"
    /\ UNCHANGED <<inputFile, ctrVars, flatVars, histVars, mode, workerCount, nRecords, idx, emitted, loaderPc,
                   crashed, sent, recordClosed, dispRec, taskVars, workerVars,
                   resVars, redVars, txVars>>

\* the buffer reached workerCount: taskChan <- batch; batch = nil
BatchSend ==
    /\ mode = "stream"
    /\ ~crashed
    /\ dispPc = "send"
    /\ SendTask(batch)
    /\ batch' = <<>>
    /\ dispPc' = "recv"
    /\ UNCHANGED <<inputFile, ctrVars, flatVars, histVars, mode, workerCount, nRecords, idx, srcVars, dispRec,
                   taskClosed, workerVars, resVars, redVars, txVars>>

\* recordChan is closed and drained; the remainder is dropped
BatchEnd_NoFlush ==
    /\ mode = "stream"
    /\ ~crashed
    /\ dispPc = "recv"
    /\ recordChan = <<>>
    /\ recordClosed
    /\ taskClosed' = TRUE
    /\ dispPc' = "done"
    /\ UNCHANGED <<inputFile, ctrVars, flatVars, histVars, extVars, srcVars, dispRec, taskChan, workerVars,
                   resVars, redVars, txVars>>

\* recordChan is closed and drained: if len(batch) > 0 goes on to the final
\* send, otherwise the deferred close(taskChan) runs
BatchEnd ==
    /\ mode = "stream"
    /\ ~crashed
    /\ dispPc = "recv"
    /\ recordChan = <<>>
    /\ recordClosed
    /\ IF Len(batch) > 0
          THEN dispPc' = "flush" /\ UNCHANGED taskClosed
          ELSE dispPc' = "done" /\ taskClosed' = TRUE
    /\ UNCHANGED <<inputFile, ctrVars, flatVars, histVars, extVars, srcVars, dispRec, taskChan, workerVars,
                   resVars, redVars, txVars>>

\* the final taskChan <- batch, then the deferred close(taskChan)
BatchFlush ==
    /\ mode = "stream"
    /\ ~crashed
    /\ dispPc = "flush"
    /\ SendTask(batch)
    /\ taskClosed' = TRUE
    /\ dispPc' = "done"
    /\ UNCHANGED <<inputFile, ctrVars, flatVars, histVars, mode, workerCount, nRecords, idx, batch, srcVars,
                   dispRec, workerVars, resVars, redVars, txVars>>

\* a worker takes the next batch: for batch := range taskChan
TakeBatch ==
    /\ ~crashed
    /\ taskChan # <<>>
    /\ taskChan' = Tail(taskChan)
    /\ UNCHANGED <<inputFile, ctrVars, flatVars, histVars, extVars, srcVars, dispVars, taskClosed, workerVars,
                   resVars, redVars, txVars>>

InitDispatch ==
    /\ mode \in {"bulk", "stream"}
    /\ workerCount \in 1 .. MaxWorkerCount
    /\ nRecords \in (IF mode = "bulk" THEN 0 .. MaxBulkRecords ELSE {0})
    /\ idx = 0
    /\ batch = <<>>
    /\ emitted = <<>>
    /\ loaderPc = (IF mode = "bulk" THEN "done" ELSE "run")
    /\ crashed = FALSE
    /\ sent = 0
    /\ recordChan = <<>>
    /\ recordClosed = (mode = "bulk")
    /\ dispPc = (IF mode = "bulk" THEN "bulk" ELSE "recv")
    /\ dispRec = 0
    /\ taskChan = <<>>
    /\ taskClosed = FALSE
    /\ wpc = [w \in Workers |-> "loop"]
    /\ werr = [w \in Workers |-> NoErr]
    /\ wtx = [w \in Workers |-> NilTx]
    /\ wbatch = [w \in Workers |-> 0]
    /\ everFailed = [w \in Workers |-> FALSE]
    /\ recvAfterFail = [w \in Workers |-> 0]
    /\ mapCalls = [w \in Workers |-> 0]
    /\ counter = 0
    /\ mu = NoWorker
    /\ ctmp = [w \in Workers |-> 0]
    /\ inputFile = "in_place"
    /\ resultChan = <<>>
    /\ resultClosed = FALSE
    /\ results = <<>>
    /\ mainPc = "collect"
    /\ ret = NoRet
    /\ txState = [t \in TxIds |-> "none"]
    /\ txRows = [t \in TxIds |-> {}]
    /\ calls = <<>>
    /\ beginCalls = [w \in Workers |-> 0]
    /\ execLog = {}
    /\ mapCount = [r \in Records |-> 0]
    /\ FlatIdle

NextDispatch ==
    \/ BulkSend
    \/ BulkClose
    \/ SourceSend
    \/ LoaderReturnNil
    \/ LoaderReturnErr
    \/ LoaderCloseAgain
    \/ BatchRecv
    \/ BatchSend
    \/ BatchEnd
    \/ BatchFlush
    \/ TakeBatch

SpecDispatch == InitDispatch /\ [][NextDispatch]_vars

\* ------------------------------------------------------------------------
\* The per-batch worker: one transaction per batch, a pool of workerCount
\* connections
\* ------------------------------------------------------------------------

\* the workers started by the run: for i := 0; i < workerCount; i++
Started == {w \in Workers : w < workerCount}

\* db.SetMaxOpenConns(cfg.Runtime.WorkerCount)
PoolSize == workerCount

\* connections held by transactions that are begun and not finalized
OpenConns == Cardinality({t \in TxIds : txState[t] = "open"})

\* the transaction a successful db.Begin returns
NewTx == CHOOSE t \in TxIds :
            /\ txState[t] = "none"
            /\ \A u \in TxIds : txState[u] = "none" => t <= u

\* capacity of resultChan: workerCount in MapReduce, 20 in MapReduceStreaming
ResultCap == IF mode = "bulk" THEN workerCount ELSE ResultChanCap

\* for batch := range taskChan: the next batch
BatchWorkerRecv(w) ==
    /\ ~crashed
    /\ wpc[w] = "loop"
    /\ taskChan # <<>>
    /\ wbatch' = [wbatch EXCEPT ![w] = Head(taskChan)]
    /\ taskChan' = Tail(taskChan)
    /\ wpc' = [wpc EXCEPT ![w] = "begin"]
    /\ UNCHANGED <<inputFile, ctrVars, flatVars, histVars, extVars, srcVars, dispVars, taskClosed, werr, wtx,
                   everFailed, recvAfterFail, mapCalls, counter, resVars, redVars,
                   txVars>>

\* for batch := range taskChan: the channel is closed and empty; wg.Done()
BatchWorkerExit(w) ==
    /\ ~crashed
    /\ wpc[w] = "loop"
    /\ taskChan = <<>>
    /\ taskClosed
    /\ wpc' = [wpc EXCEPT ![w] = "done"]
    /\ UNCHANGED <<inputFile, ctrVars, flatVars, histVars, extVars, srcVars, dispVars, taskVars, werr, wtx, wbatch,
                   everFailed, recvAfterFail, mapCalls, counter, resVars, redVars,
                   txVars>>

\* tx, err := db.Begin() returns a transaction: a connection of the pool is
\* free; the call waits while all PoolSize connections are in use
BatchWorkerBeginOk(w) ==
    /\ ~crashed
    /\ wpc[w] = "begin"
    /\ OpenConns < PoolSize
    /\ txState' = [txState EXCEPT ![NewTx] = "open"]
    /\ wtx' = [wtx EXCEPT ![w] = NewTx]
    /\ werr' = [werr EXCEPT ![w] = NoErr]
    /\ wpc' = [wpc EXCEPT ![w] = "map"]
    /\ beginCalls' = [beginCalls EXCEPT ![w] = @ + 1]
    /\ UNCHANGED <<execLog, mapCount>>
    /\ UNCHANGED <<inputFile, ctrVars, flatVars, extVars, srcVars, dispVars, taskVars, wbatch, everFailed,
                   recvAfterFail, mapCalls, counter, resVars, redVars, txRows>>

\* db.Begin() returns an error: the result is {batchID, err, nil}
BatchWorkerBeginFail(w) ==
    /\ ~crashed
    /\ wpc[w] = "begin"
    /\ OpenConns < PoolSize
    /\ wtx' = [wtx EXCEPT ![w] = NilTx]
    /\ werr' = [werr EXCEPT ![w] = BeginErr]
    /\ wpc' = [wpc EXCEPT ![w] = "emit"]
    /\ beginCalls' = [beginCalls EXCEPT ![w] = @ + 1]
    /\ UNCHANGED <<execLog, mapCount>>
    /\ UNCHANGED <<inputFile, ctrVars, flatVars, extVars, srcVars, dispVars, taskVars, wbatch, everFailed,
                   recvAfterFail, mapCalls, counter, resVars, redVars, txVars>>

\* err = mapFunc(tx, tableName, batch), returning e
BatchWorkerMap(w, e) ==
    /\ ~crashed
    /\ wpc[w] = "map"
    /\ werr' = [werr EXCEPT ![w] = e]
    /\ txRows' = [txRows EXCEPT ![wtx[w]] =
                     IF e = NoErr
                        THEN @ \cup {wbatch[w][k] : k \in 1 .. Len(wbatch[w])}
                        ELSE @]
    /\ mapCalls' = [mapCalls EXCEPT ![w] = @ + 1]
    /\ wpc' = [wpc EXCEPT ![w] = "emit"]
    /\ execLog' = execLog \cup {<<w, wtx[w]>>}
    /\ mapCount' = [r \in Records |->
                       IF \E k \in 1 .. Len(wbatch[w]) : wbatch[w][k] = r
                          THEN mapCount[r] + 1 ELSE mapCount[r]]
    /\ UNCHANGED beginCalls
    /\ UNCHANGED <<inputFile, ctrVars, flatVars, extVars, srcVars, dispVars, taskVars, wtx, wbatch, everFailed,
                   recvAfterFail, counter, resVars, redVars, txState>>

\* resultChan <- MapResult{BatchID: batchID, Err: err, Tx: tx}
BatchWorkerEmit(w) ==
    /\ ~crashed
    /\ wpc[w] = "emit"
    /\ Len(resultChan) < ResultCap
    /\ resultChan' = Append(resultChan, MapResult(w, werr[w], wtx[w]))
    /\ wpc' = [wpc EXCEPT ![w] = "loop"]
    /\ UNCHANGED <<inputFile, ctrVars, flatVars, histVars, extVars, srcVars, dispVars, taskVars, werr, wtx, wbatch,
                   everFailed, recvAfterFail, mapCalls, counter, resultClosed,
                   results, redVars, txVars>>

InitBatch ==
    /\ mode \in {"bulk", "stream"}
    /\ workerCount \in 1 .. W
    /\ nRecords \in (IF mode = "bulk" THEN 0 .. MaxRecords ELSE {0})
    /\ idx = 0
    /\ batch = <<>>
    /\ emitted = <<>>
    /\ loaderPc = (IF mode = "bulk" THEN "done" ELSE "run")
    /\ crashed = FALSE
    /\ sent = 0
    /\ recordChan = <<>>
    /\ recordClosed = (mode = "bulk")
    /\ dispPc = (IF mode = "bulk" THEN "bulk" ELSE "recv")
    /\ dispRec = 0
    /\ taskChan = <<>>
    /\ taskClosed = FALSE
    /\ wpc = [w \in Workers |-> IF w < workerCount THEN "loop" ELSE "done"]
    /\ werr = [w \in Workers |-> NoErr]
    /\ wtx = [w \in Workers |-> NilTx]
    /\ wbatch = [w \in Workers |-> <<>>]
    /\ everFailed = [w \in Workers |-> FALSE]
    /\ recvAfterFail = [w \in Workers |-> 0]
    /\ mapCalls = [w \in Workers |-> 0]
    /\ counter = 0
    /\ mu = NoWorker
    /\ ctmp = [w \in Workers |-> 0]
    /\ inputFile = "in_place"
    /\ resultChan = <<>>
    /\ resultClosed = FALSE
    /\ results = <<>>
    /\ mainPc = "collect"
    /\ ret = NoRet
    /\ txState = [t \in TxIds |-> "none"]
    /\ txRows = [t \in TxIds |-> {}]
    /\ calls = <<>>
    /\ beginCalls = [w \in Workers |-> 0]
    /\ execLog = {}
    /\ mapCount = [r \in Records |-> 0]
    /\ FlatIdle

NextBatch ==
    \/ BulkSend
    \/ BulkClose
    \/ LoaderSend
    \/ LoaderReturnNil
    \/ LoaderReturnErr
    \/ LoaderCloseAgain
    \/ BatchRecv
    \/ BatchSend
    \/ BatchEnd
    \/ BatchFlush
    \/ \E w \in Started : BatchWorkerRecv(w)
    \/ \E w \in Started : BatchWorkerExit(w)
    \/ \E w \in Started : BatchWorkerBeginOk(w)
    \/ \E w \in Started : BatchWorkerBeginFail(w)
    \/ \E w \in Started : BatchWorkerMap(w, NoErr)
    \/ \E w \in Started : BatchWorkerMap(w, InsertErr)
    \/ \E w \in Started : BatchWorkerEmit(w)
    \/ CloseResults
    \/ Collect
    \/ CollectEnd
    \/ Reduce

SpecBatch == InitBatch /\ [][NextBatch]_vars

\* ------------------------------------------------------------------------
\* The stream-per-task version: a task is a channel of records
\* ------------------------------------------------------------------------

\* the only stream a run creates: recordStream, held in recordChan
RecordStream == "recordStream"

\* one iteration of the bulk loop; the send of records[i:end] is commented
\* out, so the iteration only advances i
ChanBulkStep ==
    /\ mode = "bulk"
    /\ dispPc = "bulk"
    /\ idx < nRecords
    /\ idx' = idx + BatchSize(nRecords, workerCount)
    /\ UNCHANGED <<inputFile, ctrVars, flatVars, histVars, mode, workerCount, nRecords, batch, emitted, srcVars,
                   dispVars, taskVars, workerVars, resVars, redVars, txVars>>

\* streamFunc(recordStream) puts a record into recordStream, whose capacity
\* is workerCount and which nobody reads before streamFunc has returned
StreamFuncSend ==
    /\ mode = "stream"
    /\ loaderPc = "run"
    /\ sent < nRecords
    /\ Len(recordChan) < workerCount
    /\ recordChan' = Append(recordChan, sent + 1)
    /\ sent' = sent + 1
    /\ UNCHANGED <<inputFile, ctrVars, flatVars, histVars, extVars, loaderPc, crashed, recordClosed, dispVars,
                   taskVars, workerVars, resVars, redVars, txVars>>

\* streamFunc returns nil after its last record
StreamFuncOk ==
    /\ mode = "stream"
    /\ loaderPc = "run"
    /\ sent = nRecords
    /\ loaderPc' = "hand"
    /\ UNCHANGED <<inputFile, ctrVars, flatVars, histVars, extVars, crashed, sent, recordChan, recordClosed,
                   dispVars, taskVars, workerVars, resVars, redVars, txVars>>

\* streamFunc returns an error after its last record: it is logged,
\* close(taskChan), return, and
\* the deferred close(recordStream)
StreamFuncErr ==
    /\ mode = "stream"
    /\ loaderPc = "run"
    /\ sent = nRecords
    /\ taskClosed' = TRUE
    /\ recordClosed' = TRUE
    /\ loaderPc' = "failed"
    /\ UNCHANGED <<inputFile, ctrVars, flatVars, histVars, extVars, crashed, sent, recordChan, dispVars, taskChan,
                   workerVars, resVars, redVars, txVars>>

\* taskChan <- recordStream; close(taskChan); the deferred close(recordStream)
StreamHand ==
    /\ mode = "stream"
    /\ loaderPc = "hand"
    /\ Len(taskChan) < workerCount
    /\ taskChan' = Append(taskChan, RecordStream)
    /\ taskClosed' = TRUE
    /\ recordClosed' = TRUE
    /\ loaderPc' = "done"
    /\ UNCHANGED <<inputFile, ctrVars, flatVars, histVars, extVars, crashed, sent, recordChan, dispVars,
                   workerVars, resVars, redVars, txVars>>

\* mapFunc(tx, tableName, stream) takes the next record of the stream and
\* inserts it
ChanWorkerMapRecord(w) ==
    /\ wpc[w] = "map"
    /\ recordChan # <<>>
    /\ recordChan' = Tail(recordChan)
    /\ txRows' = [txRows EXCEPT ![wtx[w]] = @ \cup {Head(recordChan)}]
    /\ mapCalls' = [mapCalls EXCEPT ![w] = @ + 1]
    /\ execLog' = execLog \cup {<<w, wtx[w]>>}
    /\ mapCount' = [mapCount EXCEPT ![Head(recordChan)] = @ + 1]
    /\ UNCHANGED beginCalls
    /\ UNCHANGED <<inputFile, ctrVars, flatVars, extVars, loaderPc, crashed, sent, recordClosed, dispVars,
                   taskVars, wpc, werr, wtx, wbatch, everFailed, recvAfterFail,
                   counter, resVars, redVars, txState>>

\* mapFunc returns: the error e, or nil at the end of the stream
ChanWorkerMapReturn(w, e) ==
    /\ wpc[w] = "map"
    /\ e = NoErr => (recordChan = <<>> /\ recordClosed)
    /\ werr' = [werr EXCEPT ![w] = e]
    /\ wpc' = [wpc EXCEPT ![w] = "emit"]
    /\ UNCHANGED <<inputFile, ctrVars, flatVars, histVars, extVars, srcVars, dispVars, taskVars, wtx, wbatch,
                   everFailed, recvAfterFail, mapCalls, counter, resVars, redVars,
                   txVars>>

\* resultChan <- MapResult{BatchID: batchID, Err: err, Tx: tx}; resultChan
\* has capacity workerCount
ChanWorkerEmit(w) ==
    /\ wpc[w] = "emit"
    /\ Len(resultChan) < workerCount
    /\ resultChan' = Append(resultChan, MapResult(w, werr[w], wtx[w]))
    /\ wpc' = [wpc EXCEPT ![w] = "loop"]
    /\ UNCHANGED <<inputFile, ctrVars, flatVars, histVars, extVars, srcVars, dispVars, taskVars, werr, wtx, wbatch,
                   everFailed, recvAfterFail, mapCalls, counter, resultClosed,
                   results, redVars, txVars>>

InitChan ==
    /\ mode \in {"bulk", "stream"}
    /\ workerCount \in 1 .. W
    /\ nRecords \in (IF mode = "bulk" THEN 0 .. MaxBulkRecords ELSE 0 .. MaxRecords)
    /\ idx = 0
    /\ batch = <<>>
    /\ emitted = <<>>
    /\ loaderPc = (IF mode = "bulk" THEN "done" ELSE "run")
    /\ crashed = FALSE
    /\ sent = 0
    /\ recordChan = <<>>
    /\ recordClosed = FALSE
    /\ dispPc = (IF mode = "bulk" THEN "bulk" ELSE "done")
    /\ dispRec = 0
    /\ taskChan = <<>>
    /\ taskClosed = FALSE
    /\ wpc = [w \in Workers |-> IF w < workerCount THEN "loop" ELSE "done"]
    /\ werr = [w \in Workers |-> NoErr]
    /\ wtx = [w \in Workers |-> NilTx]
    /\ wbatch = [w \in Workers |-> <<>>]
    /\ everFailed = [w \in Workers |-> FALSE]
    /\ recvAfterFail = [w \in Workers |-> 0]
    /\ mapCalls = [w \in Workers |-> 0]
    /\ counter = 0
    /\ mu = NoWorker
    /\ ctmp = [w \in Workers |-> 0]
    /\ inputFile = "in_place"
    /\ resultChan = <<>>
    /\ resultClosed = FALSE
    /\ results = <<>>
    /\ mainPc = "collect"
    /\ ret = NoRet
    /\ txState = [t \in TxIds |-> "none"]
    /\ txRows = [t \in TxIds |-> {}]
    /\ calls = <<>>
    /\ beginCalls = [w \in Workers |-> 0]
    /\ execLog = {}
    /\ mapCount = [r \in Records |-> 0]
    /\ FlatIdle

NextChan ==
    \/ ChanBulkStep
    \/ BulkClose
    \/ StreamFuncSend
    \/ StreamFuncOk
    \/ StreamFuncErr
    \/ StreamHand
    \/ \E w \in Started : BatchWorkerRecv(w)
    \/ \E w \in Started : BatchWorkerExit(w)
    \/ \E w \in Started : BatchWorkerBeginOk(w)
    \/ \E w \in Started : BatchWorkerBeginFail(w)
    \/ \E w \in Started : ChanWorkerMapRecord(w)
    \/ \E w \in Started : ChanWorkerMapReturn(w, NoErr)
    \/ \E w \in Started : ChanWorkerMapReturn(w, InsertErr)
    \/ \E w \in Started : ChanWorkerEmit(w)
    \/ CloseResults
    \/ Collect
    \/ CollectEnd
    \/ Reduce

SpecChan == InitChan /\ [][NextChan]_vars

\* ------------------------------------------------------------------------
\* The flatteners and the statement generator
\* ------------------------------------------------------------------------

\* values of a decoded record, tagged with their Go type:
\* a scalar, a []interface{}, a map[string]interface{}, a
\* []map[string]interface{}
Scalar(v) == <<"scalar", v>>
Array(s) == <<"[]interface{}", s>>
Map(m) == <<"map[string]interface{}", m>>
MapSlice(s) == <<"[]map[string]interface{}", s>>

IsScalar(v) == v[1] = "scalar"
IsArray(v) == v[1] = "[]interface{}"
IsMap(v) == v[1] = "map[string]interface{}"
IsMapSlice(v) == v[1] = "[]map[string]interface{}"

\* the empty map
EmptyMap == [k \in {} |-> Scalar("")]

\* m with m[k] set to v
Put(m, k, v) == [x \in DOMAIN m \cup {k} |-> IF x = k THEN v ELSE m[x]]

\* the orders in which a range loop can visit the keys of a map
KeyOrders(m) ==
    {p \in [1 .. Cardinality(DOMAIN m) -> DOMAIN m] :
        \A i, j \in DOMAIN p : i # j => p[i] # p[j]}

\* scalar field values; the second one carries SQL metacharacters
PlainValue == "A"
MetaValue == "x'); DROP TABLE t;--"
ScalarValues == {PlainValue, MetaValue}
ValueAt(i) == IF i % 2 = 1 THEN PlainValue ELSE MetaValue

\* the sub-records of the input files: with the field sku only, with a
\* field id as well, and with a nested collection parts of two sub-records
ElementKinds == {"flat", "withId", "deep"}
PartsOf == Array(<<Map("pn" :> Scalar(PlainValue)), Map("pn" :> Scalar(MetaValue))>>)
Element(kind, i) ==
    IF kind = "flat" THEN "sku" :> Scalar(ValueAt(i))
    ELSE IF kind = "withId"
        THEN ("sku" :> Scalar(ValueAt(i))) @@ ("id" :> Scalar(ValueAt(i + 1)))
        ELSE ("sku" :> Scalar(ValueAt(i))) @@ ("parts" :> PartsOf)

\* the collections items (up to MaxElems sub-records) and tags (up to
\* MaxSiblings sub-records) of the input records
ItemLists ==
    {[i \in 1 .. k |-> Map(Element(kind, i))] : k \in 0 .. MaxElems, kind \in ElementKinds}
TagLists ==
    {[i \in 1 .. k |-> Map("tag" :> Scalar(ValueAt(i)))] : k \in 0 .. MaxSiblings}

\* the records of the input files: the scalar field id and optionally the
\* collections items and tags
BaseFields(v) == "id" :> Scalar(v)
InputRecords ==
    {BaseFields(v) : v \in ScalarValues}
    \cup {BaseFields(v) @@ ("items" :> Array(l)) : v \in ScalarValues, l \in ItemLists}
    \cup {BaseFields(v) @@ ("tags" :> Array(l)) : v \in ScalarValues, l \in TagLists}
    \cup {BaseFields(v) @@ ("items" :> Array(l)) @@ ("tags" :> Array(t)) :
             v \in ScalarValues, l \in ItemLists, t \in TagLists}

AllKeys == {"id", "items", "tags", "sku", "tag", "parts", "pn"}
\* the column lists of the runs
ColumnLists ==
    {AllKeys,
     {"id", "sku", "tag", "pn"},
     {"id", "sku", "tags", "parts"},
     {"sku", "tag"},
     {}}

\* flattenedRow with the fields of nestedMap copied unchecked
FlattenedRow_NoFilter(recordMap, key, nestedMap, columnSet) ==
    LET baseKeys == {k \in DOMAIN recordMap \ {key} : k \in columnSet}
    IN  [k \in baseKeys \cup DOMAIN nestedMap |->
            IF k \in DOMAIN nestedMap THEN nestedMap[k] ELSE recordMap[k]]

\* flattenedRow of ParseAndFlattenJSONElement: the fields of recordMap other
\* than key whose key is allowed, then the allowed fields of nestedMap
FlattenedRow(recordMap, key, nestedMap, columnSet) ==
    LET baseKeys == {k \in DOMAIN recordMap \ {key} : k \in columnSet}
        nestedKeys == {k \in DOMAIN nestedMap : k \in columnSet}
    IN  [k \in baseKeys \cup nestedKeys |->
            IF k \in nestedKeys THEN nestedMap[k] ELSE recordMap[k]]

\* the rows appended for the elements v of the array under key; an element
\* that is not a map is skipped
RECURSIVE ArrayRows(_, _, _, _)
ArrayRows(recordMap, key, v, columnSet) ==
    IF v = <<>> THEN <<>>
    ELSE (IF IsMap(Head(v))
             THEN <<FlattenedRow(recordMap, key, Head(v)[2], columnSet)>>
             ELSE <<>>)
         \o ArrayRows(recordMap, key, Tail(v), columnSet)

\* nestedRows after ranging over the keys of recordMap in the given order
RECURSIVE NestedRows(_, _, _)
NestedRows(recordMap, order, columnSet) ==
    IF order = <<>> THEN <<>>
    ELSE (IF IsArray(recordMap[Head(order)])
             THEN ArrayRows(recordMap, Head(order), recordMap[Head(order)][2], columnSet)
             ELSE <<>>)
         \o NestedRows(recordMap, Tail(order), columnSet)

\* validatedBaseRecord: the fields that are not arrays and whose key is allowed
BaseRecord(recordMap, columnSet) ==
    [k \in {x \in DOMAIN recordMap : ~IsArray(recordMap[x]) /\ x \in columnSet} |->
        recordMap[k]]

\* ParseAndFlattenJSONElement without the filter on the base record
ParseAndFlattenJSONElement_NoFilter(recordMap, columnSet, order) ==
    [nestedRows |-> NestedRows(recordMap, order, columnSet),
     baseRecord |-> [k \in {x \in DOMAIN recordMap : ~IsArray(recordMap[x])} |->
                        recordMap[k]]]

ParseAndFlattenJSONElement(recordMap, columnSet, order) ==
    [nestedRows |-> NestedRows(recordMap, order, columnSet),
     baseRecord |-> BaseRecord(recordMap, columnSet)]

\* the rows sent for one record without the base record as a fallback
StreamJSONRecord_NoBaseRow(recordMap, columnSet, order) ==
    ParseAndFlattenJSONElement(recordMap, columnSet, order).nestedRows

\* the rows StreamJSONFileWithSchema sends for one record
StreamJSONRecord(recordMap, columnSet, order) ==
    LET r == ParseAndFlattenJSONElement(recordMap, columnSet, order)
    IN  IF Len(r.nestedRows) = 0 THEN <<r.baseRecord>> ELSE r.nestedRows

\* one iteration of the loop over the Records array
JsonFlatten ==
    /\ format = "json"
    /\ fpc = "read"
    /\ \E order \in KeyOrders(rec) : rows' = StreamJSONRecord(rec, columns, order)
    /\ fpc' = "rows"
    /\ UNCHANGED <<format, columns, rec, nestedRecords, vi, obj, keyOrder, stmt, insErr,
                   inputFile, ctrVars, histVars, extVars, srcVars, dispVars, taskVars,
                   workerVars, resVars, redVars, txVars>>

\* an XML element: its name, its character data and its child elements
XmlElement(name, text, kids) == [name |-> name, text |-> text, kids |-> kids]

\* order of the fields in the XML files
FieldOrder == <<"id", "sku", "pn", "tag", "items", "parts", "tags">>

\* the child elements for the fields of m: one element per scalar field and
\* one element per sub-record of a collection field
RECURSIVE XmlKids(_, _)
XmlKids(m, order) ==
    IF order = <<>> THEN <<>>
    ELSE LET k == Head(order) IN
         (IF k \notin DOMAIN m THEN <<>>
          ELSE IF IsScalar(m[k]) THEN <<XmlElement(k, m[k][2], <<>>)>>
          ELSE [i \in 1 .. Len(m[k][2]) |->
                   XmlElement(k, "", XmlKids(m[k][2][i][2], FieldOrder))])
         \o XmlKids(m, Tail(order))

\* the <Record> element of an input record
XmlRecord(r) == XmlElement("Record", "", XmlKids(r, FieldOrder))

\* parseElement: character data is stored under the element's own name, a
\* child element under its name, repeated children as a slice of maps
RECURSIVE ParseElement(_)
RECURSIVE ParseChildren(_, _)
ParseElement(start) ==
    IF start.kids = <<>>
       THEN (IF start.text # "" THEN start.name :> Scalar(start.text) ELSE EmptyMap)
       ELSE ParseChildren(start.kids, EmptyMap)

ParseChildren(kids, flatRecord) ==
    IF kids = <<>> THEN flatRecord
    ELSE LET t == Head(kids)
             nested == ParseElement(t)
             existing == flatRecord[t.name]
         IN  ParseChildren(Tail(kids),
                Put(flatRecord, t.name,
                    IF t.name \in DOMAIN flatRecord
                       THEN (IF IsMapSlice(existing)
                                THEN MapSlice(Append(existing[2], nested))
                                ELSE MapSlice(<<existing[2], nested>>))
                       ELSE Map(nested)))

\* flattened: the fields of record other than key, then the fields of nested
XmlRow(record, key, nested) ==
    [k \in (DOMAIN record \ {key}) \cup DOMAIN nested |->
        IF k \in DOMAIN nested THEN nested[k] ELSE record[k]]

\* resultRows after ranging over the keys of record in the given order
RECURSIVE ResultRows(_, _)
ResultRows(record, order) ==
    IF order = <<>> THEN <<>>
    ELSE LET value == record[Head(order)] IN
         (IF IsMapSlice(value)
             THEN [i \in 1 .. Len(value[2]) |-> XmlRow(record, Head(order), value[2][i])]
             ELSE <<>>)
         \o ResultRows(record, Tail(order))

\* nestedRecords before validation: the base record if nothing was expanded
ExpandRecord(record, order) ==
    IF ResultRows(record, order) = <<>> THEN <<record>> ELSE ResultRows(record, order)

\* flat after the allowed fields of nestedMap were copied into it
MergeAllowed(flat, nestedMap, columnSet) ==
    LET allowed == {n \in DOMAIN nestedMap : n \in columnSet}
    IN  [x \in DOMAIN flat \cup allowed |->
            IF x \in allowed THEN nestedMap[x] ELSE flat[x]]

\* flat after ranging over the fields of record in the given order: the
\* fields of a nested map are lifted, other fields are copied, if allowed
RECURSIVE ValidateFields(_, _, _, _)
ValidateFields(record, order, columnSet, flat) ==
    IF order = <<>> THEN flat
    ELSE LET k == Head(order)
             v == record[k]
         IN  ValidateFields(record, Tail(order), columnSet,
                IF IsMap(v) THEN MergeAllowed(flat, v[2], columnSet)
                ELSE IF k \in columnSet THEN Put(flat, k, v)
                ELSE flat)

\* ParseAndFlattenXMLElementWithColumns up to the validation loop
XmlParse ==
    /\ format = "xml"
    /\ fpc = "read"
    /\ LET record == ParseElement(XmlRecord(rec))
       IN  \E order \in KeyOrders(record) :
              nestedRecords' = ExpandRecord(record, order)
    /\ vi' = 1
    /\ fpc' = "validate"
    /\ UNCHANGED <<format, columns, rec, rows, obj, keyOrder, stmt, insErr,
                   inputFile, ctrVars, histVars, extVars, srcVars, dispVars, taskVars,
                   workerVars, resVars, redVars, txVars>>

\* one iteration of the validation loop; after the last one the records are
\* returned and sent to recordChan
XmlValidate ==
    /\ format = "xml"
    /\ fpc = "validate"
    /\ \E order \in KeyOrders(nestedRecords[vi]) :
          nestedRecords' = [nestedRecords EXCEPT
                               ![vi] = ValidateFields(@, order, columns, EmptyMap)]
    /\ vi' = vi + 1
    /\ IF vi = Len(nestedRecords)
          THEN rows' = nestedRecords' /\ fpc' = "rows"
          ELSE UNCHANGED <<rows, fpc>>
    /\ UNCHANGED <<format, columns, rec, obj, keyOrder, stmt, insErr,
                   inputFile, ctrVars, histVars, extVars, srcVars, dispVars, taskVars,
                   workerVars, resVars, redVars, txVars>>

\* the table of the run
TableName == "records"

\* fmt.Sprintf(`"%s"`, key)
QuoteColumn(key) == <<"\"", key, "\"">>

\* strings.Join(parts, sep)
RECURSIVE Join(_, _)
Join(parts, sep) ==
    IF parts = <<>> THEN <<>>
    ELSE IF Len(parts) = 1 THEN Head(parts)
    ELSE Head(parts) \o <<sep>> \o Join(Tail(parts), sep)

\* ExtractSQLDataUsingSchema with the values in the opposite order
ExtractSQLDataUsingSchema_Reversed(record, order) ==
    [columns |-> [i \in 1 .. Len(order) |-> QuoteColumn(order[i])],
     rows |-> << [i \in 1 .. Len(order) |-> record[order[Len(order) + 1 - i]]] >>]

\* ExtractSQLDataUsingSchema: the quoted keys and the values of record, both
\* in the order the range loop visits the keys
ExtractSQLDataUsingSchema(record, order) ==
    [columns |-> [i \in 1 .. Len(order) |-> QuoteColumn(order[i])],
     rows |-> << [i \in 1 .. Len(order) |-> record[order[i]]] >>]

\* rowPlaceholders with the values written into the statement
RowPlaceholders_Inline(row, placeholderIndex) ==
    [j \in 1 .. Len(row) |-> <<"'", ToString(row[j][2]), "'">>]

\* rowPlaceholders: $placeholderIndex, $placeholderIndex+1, ... one per value
RowPlaceholders(row, placeholderIndex) ==
    [j \in 1 .. Len(row) |-> <<"$", ToString(placeholderIndex + j - 1)>>]

\* allPlaceholders for the rows, numbering from placeholderIndex
RECURSIVE AllPlaceholders(_, _)
AllPlaceholders(rws, placeholderIndex) ==
    IF rws = <<>> THEN <<>>
    ELSE <<(<<"(">> \o Join(RowPlaceholders(Head(rws), placeholderIndex), ", ")
            \o <<")">>)>>
         \o AllPlaceholders(Tail(rws), placeholderIndex + Len(Head(rws)))

\* allValues: the rows appended one after the other
RECURSIVE AllValues(_)
AllValues(rws) == IF rws = <<>> THEN <<>> ELSE Head(rws) \o AllValues(Tail(rws))

\* the query text, as the sequence of its pieces, and the values that
\* InsertRecordsUsingSchema passes to tx.Exec
InsertStatement(tableName, record, order) ==
    LET data == ExtractSQLDataUsingSchema(record, order)
    IN  [query |-> <<"INSERT INTO ", tableName, " (">>
                   \o Join(data.columns, ", ")
                   \o <<") VALUES ">>
                   \o Join(AllPlaceholders(data.rows, 1), ", "),
         values |-> AllValues(data.rows)]

\* a worker calls InsertRecordsUsingSchema for a row received from
\* recordChan; tx.Exec returns nil or an error
InsertRow ==
    /\ fpc = "rows"
    /\ \E i \in 1 .. Len(rows) : \E order \in KeyOrders(rows[i]) :
          /\ obj' = rows[i]
          /\ keyOrder' = order
          /\ stmt' = InsertStatement(TableName, rows[i], order)
    /\ insErr' \in {NoErr, InsertErr}
    /\ fpc' = "inserted"
    /\ UNCHANGED <<format, columns, rec, nestedRecords, vi, rows,
                   inputFile, ctrVars, histVars, extVars, srcVars, dispVars, taskVars,
                   workerVars, resVars, redVars, txVars>>

\* the worker pool is not running
PipelineIdle ==
    /\ loaderPc = "done"
    /\ crashed = FALSE
    /\ sent = 0
    /\ recordChan = <<>>
    /\ recordClosed = FALSE
    /\ dispPc = "done"
    /\ dispRec = 0
    /\ taskChan = <<>>
    /\ taskClosed = FALSE
    /\ wpc = [w \in Workers |-> "done"]
    /\ werr = [w \in Workers |-> NoErr]
    /\ wtx = [w \in Workers |-> NilTx]
    /\ wbatch = [w \in Workers |-> 0]
    /\ everFailed = [w \in Workers |-> FALSE]
    /\ recvAfterFail = [w \in Workers |-> 0]
    /\ mapCalls = [w \in Workers |-> 0]
    /\ counter = 0
    /\ mu = NoWorker
    /\ ctmp = [w \in Workers |-> 0]
    /\ inputFile = "in_place"
    /\ resultChan = <<>>
    /\ resultClosed = FALSE
    /\ results = <<>>
    /\ mainPc = "collect"
    /\ ret = NoRet
    /\ txState = [t \in TxIds |-> "none"]
    /\ txRows = [t \in TxIds |-> {}]
    /\ calls = <<>>
    /\ beginCalls = [w \in Workers |-> 0]
    /\ execLog = {}
    /\ mapCount = [r \in Records |-> 0]
    /\ mode = "none"
    /\ workerCount = W
    /\ nRecords = 0
    /\ idx = 0
    /\ batch = <<>>
    /\ emitted = <<>>

InitFlatten ==
    /\ PipelineIdle
    /\ format \in {"json", "xml"}
    /\ columns \in ColumnLists
    /\ rec \in InputRecords
    /\ nestedRecords = <<>>
    /\ vi = 0
    /\ rows = <<>>
    /\ fpc = "read"
    /\ obj = <<>>
    /\ keyOrder = <<>>
    /\ stmt = <<>>
    /\ insErr = NoErr

NextFlatten ==
    \/ JsonFlatten
    \/ XmlParse
    \/ XmlValidate
    \/ InsertRow

SpecFlatten == InitFlatten /\ [][NextFlatten]_vars

\* ---------------------------------------------------------------------
\* The XML flattener of the earlier loader (same parseElement, expansion
\* loop and validation loop; nestedRecords receives resultRows only).
\* ---------------------------------------------------------------------

\* the earlier ParseAndFlattenXMLElementWithColumns up to the validation
\* loop; with no row to validate the empty slice is returned
XmlParseEarlier ==
    /\ format = "xml_earlier"
    /\ fpc = "read"
    /\ LET record == ParseElement(XmlRecord(rec))
       IN  \E order \in KeyOrders(record) :
              nestedRecords' = ResultRows(record, order)
    /\ vi' = 1
    /\ IF nestedRecords' = <<>>
          THEN rows' = <<>> /\ fpc' = "rows"
          ELSE fpc' = "validate" /\ UNCHANGED rows
    /\ UNCHANGED <<format, columns, rec, obj, keyOrder, stmt, insErr,
                   inputFile, ctrVars, histVars, extVars, srcVars, dispVars, taskVars,
                   workerVars, resVars, redVars, txVars>>

\* one iteration of the validation loop of the earlier flattener
XmlValidateEarlier ==
    /\ format = "xml_earlier"
    /\ fpc = "validate"
    /\ \E order \in KeyOrders(nestedRecords[vi]) :
          nestedRecords' = [nestedRecords EXCEPT
                               ![vi] = ValidateFields(@, order, columns, EmptyMap)]
    /\ vi' = vi + 1
    /\ IF vi = Len(nestedRecords)
          THEN rows' = nestedRecords' /\ fpc' = "rows"
          ELSE UNCHANGED <<rows, fpc>>
    /\ UNCHANGED <<format, columns, rec, obj, keyOrder, stmt, insErr,
                   inputFile, ctrVars, histVars, extVars, srcVars, dispVars, taskVars,
                   workerVars, resVars, redVars, txVars>>

InitFlattenEarlier ==
    /\ PipelineIdle
    /\ format = "xml_earlier"
    /\ columns \in ColumnLists
    /\ rec \in InputRecords
    /\ nestedRecords = <<>>
    /\ vi = 0
    /\ rows = <<>>
    /\ fpc = "read"
    /\ obj = <<>>
    /\ keyOrder = <<>>
    /\ stmt = <<>>
    /\ insErr = NoErr

NextFlattenEarlier ==
    \/ XmlParseEarlier
    \/ XmlValidateEarlier
    \/ InsertRow

SpecFlattenEarlier == InitFlattenEarlier /\ [][NextFlattenEarlier]_vars

\* ------------------------------------------------------------------------
\* Properties
\* ------------------------------------------------------------------------

CallIdx == 1 .. Len(calls)
\* transactions on which op was called
CalledTxs(op) == {calls[i].tx : i \in {j \in CallIdx : calls[j].op = op}}
AllCallsOk == \A i \in CallIdx : calls[i].ok
NoCallTwice == \A i, j \in CallIdx : i # j => calls[i].tx # calls[j].tx
ErrorFree(rs) == \A i \in 1 .. Len(rs) : rs[i].Tx # NilTx /\ rs[i].Err = NoErr
IsError(r) == r.kind \in {"map_error", "commit_error"}
CommittedTxs == {t \in TxIds : txState[t] = "committed"}
CommittedRows == UNION {txRows[t] : t \in CommittedTxs}
InsertedRows == UNION {txRows[t] : t \in TxIds}
\* Begin was attempted by worker w and gave no transaction
BeginFailed(w) == wpc[w] # "begin" /\ txState[TxOf(w)] = "none"
\* results of worker w that are in the result channel or collected
ResultsOf(w) ==
    Cardinality({i \in 1 .. Len(resultChan) : resultChan[i].BatchID = w})
    + Cardinality({i \in 1 .. Len(results) : results[i].BatchID = w})

\* C1: when no Commit/Rollback call fails, ProcessMapResults commits every
\* transaction and returns nil if every result has a transaction and no error;
\* otherwise it rolls back every non-nil transaction, commits none and
\* returns an error.
C1_BarrierDecision ==
    (mainPc = "returned" /\ AllCallsOk) =>
        IF ErrorFree(results)
        THEN /\ ret.kind = "nil"
             /\ CalledTxs("Commit") = TxsOf(results)
             /\ CalledTxs("Rollback") = {}
        ELSE /\ IsError(ret)
             /\ CalledTxs("Rollback") = TxsOf(results)
             /\ CalledTxs("Commit") = {}

\* C1 witness: a failed run in which the transaction of an error-free result
\* was rolled back
C1_Witness ==
    /\ mainPc = "returned"
    /\ AllCallsOk
    /\ \E i \in 1 .. Len(results) :
          /\ results[i].Err = NoErr
          /\ results[i].Tx # NilTx
          /\ results[i].Tx \in CalledTxs("Rollback")

\* C2 (as claimed): once a mapFunc call of a worker has returned an error, the
\* result of that worker carries an error, nothing is committed, every
\* transaction is rolled back and the run returns an error.
C2_InsertErrorFailsRun ==
    (mainPc = "returned" /\ \E w \in Workers : everFailed[w]) =>
        /\ \A i \in 1 .. Len(results) :
              everFailed[results[i].BatchID] => results[i].Err # NoErr
        /\ CalledTxs("Commit") = {}
        /\ CalledTxs("Rollback") = TxsOf(results)
        /\ IsError(ret)
        /\ CommittedRows = {}

C4_FailFast == \A w \in Workers : recvAfterFail[w] = 0

\* C5 (as claimed): when a Commit fails, every transaction of the result list
\* is still finalized before ProcessMapResults returns, and the returned error
\* is the one of the first failed Commit.
C5_CommitFailureFinalizesAll ==
    (mainPc = "returned" /\ \E i \in CallIdx : calls[i].op = "Commit" /\ ~calls[i].ok) =>
        /\ \A t \in TxsOf(results) : t \in CalledTxs("Commit") \cup CalledTxs("Rollback")
        /\ ret.kind = "commit_error"

\* C6: in the rollback path a failing Rollback does not stop the loop: Rollback
\* is called once on every non-nil transaction, and the returned error is the
\* map-stage failure whether or not a Rollback failed.
C6_RollbackBestEffort ==
    (mainPc = "returned" /\ ~ErrorFree(results)) =>
        /\ CalledTxs("Rollback") = TxsOf(results)
        /\ Len(calls) = Cardinality(TxsOf(results))
        /\ ret = [kind |-> "map_error", batch |-> -1]

\* C6 witness: the first Rollback failed and a later transaction was rolled back
C6_Witness ==
    /\ mainPc = "returned"
    /\ ~ErrorFree(results)
    /\ Len(calls) >= 2
    /\ ~calls[1].ok
    /\ calls[2].op = "Rollback"

\* C7: the reduce function gets exactly W results, one per worker id; a result
\* has a nil transaction only if that worker's Begin failed; a worker that
\* drained the queue without any error emits a nil error with its transaction.
C7_OneResultPerWorker ==
    mainPc \in {"reduce", "returned"} =>
        /\ Len(results) = W
        /\ \A w \in Workers : Cardinality({i \in 1 .. W : results[i].BatchID = w}) = 1
        /\ \A i \in 1 .. Len(results) :
              LET w == results[i].BatchID IN
              /\ results[i].Tx = NilTx => BeginFailed(w)
              /\ results[i].Tx # NilTx => results[i].Tx = TxOf(w)
              /\ (~BeginFailed(w) /\ ~everFailed[w]) =>
                     (results[i].Err = NoErr /\ results[i].Tx = TxOf(w))

\* C7 witness: a result without transaction next to an error-free result of a
\* worker that mapped records
C7_Witness ==
    /\ mainPc = "reduce"
    /\ \E i, j \in 1 .. Len(results) :
          /\ results[i].Tx = NilTx
          /\ results[j].Tx # NilTx
          /\ results[j].Err = NoErr
          /\ mapCalls[results[j].BatchID] > 0

\* C8: a worker whose Begin failed makes no mapFunc call, emits exactly one
\* result, with a nil transaction, and terminates; the run then returns an
\* error, Rollback is called on every other worker's transaction and Commit
\* on none.
C8_BeginFailure ==
    \A w \in Workers : BeginFailed(w) =>
        /\ mapCalls[w] = 0
        /\ wtx[w] = NilTx
        /\ wpc[w] \in {"emit", "sent", "done"}
        /\ ResultsOf(w) = (IF wpc[w] = "emit" THEN 0 ELSE 1)
        /\ \A i \in 1 .. Len(results) : results[i].BatchID = w => results[i].Tx = NilTx
        /\ mainPc = "returned" =>
              /\ IsError(ret)
              /\ CalledTxs("Commit") = {}
              /\ CalledTxs("Rollback") = {TxOf(v) : v \in {u \in Workers : ~BeginFailed(u)}}

\* C8 witness: one worker failed to begin, another one mapped a record and had
\* its transaction rolled back
C8_Witness ==
    /\ mainPc = "returned"
    /\ \E w, v \in Workers :
          /\ BeginFailed(w)
          /\ mapCalls[v] > 0
          /\ TxOf(v) \in CalledTxs("Rollback")

\* C9: the reduce function runs only after every worker has terminated and
\* every result a worker sent has been collected; no Commit or Rollback
\* happens while a worker is still running.
C9_ReduceAfterJoin ==
    (mainPc # "collect" \/ calls # <<>>) =>
        /\ \A w \in Workers : wpc[w] = "done"
        /\ resultChan = <<>>
        /\ \A w \in Workers : \E i \in 1 .. Len(results) : results[i].BatchID = w

\* C9 witness: the reduce function has finalized the transactions of a run
\* whose workers mapped records
C9_Witness ==
    /\ mainPc = "returned"
    /\ Len(calls) = W
    /\ \A w \in Workers : mapCalls[w] > 0

SourceCompleted == loaderPc = "done" /\ ~crashed

\* C11: every worker calls Begin exactly once, every mapFunc call of a worker
\* runs in the transaction that worker opened, and no transaction is used by
\* two workers.
C11_OneTxPerWorker ==
    /\ \A w \in Workers : beginCalls[w] = (IF wpc[w] = "begin" THEN 0 ELSE 1)
    /\ \A e \in execLog : e[2] # NilTx /\ e[2] = wtx[e[1]] /\ e[2] = TxOf(e[1])
    /\ \A e, f \in execLog : e[2] = f[2] => e[1] = f[1]
    /\ \A w \in Workers : wpc[w] = "map" => txState[wtx[w]] = "open"

\* C11 witness: every worker has made several mapFunc calls
C11_Witness ==
    /\ \A w \in Workers : \E e \in execLog : e[1] = w
    /\ \E w \in Workers : mapCalls[w] >= 2

\* C17 (as claimed): when the source completed without error, at the end of
\* the map stage every record it produced has been passed to mapFunc exactly
\* once.
C17_EveryRecordMappedOnce ==
    (mainPc # "collect" /\ SourceCompleted) =>
        \A r \in 1 .. sent : mapCount[r] = 1

\* C17 (amended): no record is ever passed to mapFunc twice; when the source
\* completed without error and at least one worker opened its transaction,
\* every record has been passed to mapFunc exactly once at the end of the map
\* stage.
C17_MappedOnceIfAWorkerBegan ==
    /\ \A r \in Records : mapCount[r] <= 1
    /\ (mainPc # "collect" /\ SourceCompleted /\ \E w \in Workers : ~BeginFailed(w)) =>
          \A r \in 1 .. sent : mapCount[r] = 1

\* C17 witness: all records of the largest source were mapped, by both workers
C17_Witness ==
    /\ mainPc = "reduce"
    /\ SourceCompleted
    /\ sent = MaxRecords
    /\ \A r \in 1 .. sent : mapCount[r] = 1
    /\ Cardinality({e[1] : e \in execLog}) >= 2

\* C20 (as claimed): when every result is error-free the transactions are
\* committed in ascending worker id order.
C20_CommitAscending ==
    (mainPc = "returned" /\ ErrorFree(results)) =>
        \A i, j \in CallIdx : i < j => calls[i].tx < calls[j].tx

\* C20 (amended): when every result is error-free the transactions are
\* committed in the order in which the results were collected from the
\* result channel, whatever the worker ids.
C20_CommitInCollectionOrder ==
    (mainPc = "returned" /\ ErrorFree(results)) =>
        /\ \A i \in CallIdx : calls[i].op = "Commit" /\ calls[i].tx = results[i].Tx
        /\ AllCallsOk => Len(calls) = Len(results)

\* C20 witness: a successful run that committed the transaction of a higher
\* worker id first
C20_Witness ==
    /\ mainPc = "returned"
    /\ ret.kind = "nil"
    /\ Len(calls) >= 2
    /\ calls[1].tx > calls[2].tx

\* the concatenation of a sequence of batches
RECURSIVE Concat(_)
Concat(bs) == IF bs = <<>> THEN <<>> ELSE Head(bs) \o Concat(Tail(bs))

\* the records 1 .. n in order
UpTo(n) == [k \in 1 .. n |-> k]

\* the smallest q with q * b >= a (a >= 0, b > 0)
CeilDiv(a, b) == CHOOSE q \in 0 .. a : q * b >= a /\ (q = 0 \/ (q - 1) * b < a)

BulkDone == mode = "bulk" /\ dispPc = "done"
StreamDone == mode = "stream" /\ dispPc = "done"

\* C13: the batches emitted by the bulk dispatcher are pairwise disjoint and
\* never leave the input; when the dispatcher is done every one of the N
\* records is in exactly one batch.
C13_BulkPartition ==
    mode = "bulk" =>
        /\ \A k \in 1 .. Len(emitted) : \A p \in 1 .. Len(emitted[k]) :
              emitted[k][p] \in 1 .. nRecords
        /\ \A k, l \in 1 .. Len(emitted) :
              \A p \in 1 .. Len(emitted[k]) : \A q \in 1 .. Len(emitted[l]) :
                 emitted[k][p] = emitted[l][q] => (k = l /\ p = q)
        /\ BulkDone =>
              \A r \in 1 .. nRecords :
                 \E k \in 1 .. Len(emitted) : \E p \in 1 .. Len(emitted[k]) :
                    emitted[k][p] = r

\* C13 witness: a finished bulk dispatch of several batches whose last batch
\* is smaller than the others
C13_Witness ==
    /\ BulkDone
    /\ nRecords >= 5
    /\ Len(emitted) >= 3
    /\ Len(emitted[Len(emitted)]) < Len(emitted[1])

\* C14: the bulk dispatcher emits ceil(N/size) batches of size = ceil(N/W)
\* (at most W, none when N = 0); batch k is the contiguous index range that
\* starts after (k-1)*size records, batches come in increasing index order,
\* and all have the full size except possibly the last.
C14_BulkBatchShape ==
    mode = "bulk" =>
        LET size == CeilDiv(nRecords, workerCount)
        IN /\ \A k \in 1 .. Len(emitted) :
                 /\ Len(emitted[k]) >= 1
                 /\ \A p \in 1 .. Len(emitted[k]) :
                       emitted[k][p] = (k - 1) * size + p
                 /\ k < Len(emitted) => Len(emitted[k]) = size
                 /\ Len(emitted[k]) <= size
           /\ Len(emitted) <= workerCount
           /\ BulkDone =>
                 /\ Len(emitted) = (IF nRecords = 0 THEN 0
                                    ELSE CeilDiv(nRecords, size))
                 /\ Len(Concat(emitted)) = nRecords

\* C14 witness: 10 records and 3 workers gave batches of 4, 4 and 2
C14_Witness ==
    /\ BulkDone
    /\ nRecords = 10
    /\ workerCount = 3
    /\ Len(emitted) = 3
    /\ Len(emitted[1]) = 4
    /\ Len(emitted[3]) = 2

\* C16: the streaming dispatcher emits its buffer exactly when it holds W
\* records and resets it; at the end of the source a non-empty remainder is
\* emitted as the final batch and an empty one is not; the concatenation of
\* the emitted batches is the arrival sequence.
C16_StreamBatching ==
    mode = "stream" =>
        /\ \A k \in 1 .. Len(emitted) :
              /\ Len(emitted[k]) >= 1
              /\ Len(emitted[k]) <= workerCount
              /\ (k < Len(emitted) \/ dispPc # "done") =>
                    Len(emitted[k]) = workerCount
        /\ dispPc = "recv" => Len(batch) < workerCount
        /\ dispPc = "send" => Len(batch) = workerCount
        /\ dispPc = "flush" => (Len(batch) >= 1 /\ Len(batch) < workerCount)
        /\ dispPc # "done" =>
              Concat(emitted) \o batch \o recordChan = UpTo(sent)
        /\ dispPc = "done" => Concat(emitted) = UpTo(sent)

\* C16 witness: five records with W = 2 were emitted as 2, 2 and a final 1
C16_Witness ==
    /\ StreamDone
    /\ workerCount = 2
    /\ sent = 5
    /\ Len(emitted) = 3
    /\ Len(emitted[3]) = 1

\* C18 as stated: in both modes the dispatch queue never holds more than W
\* pending batches.
C18_QueueAtMostW == Len(taskChan) <= workerCount

\* C18 amended: the dispatch queue holds at most W pending batches in bulk
\* mode and at most 20, whatever W is, in streaming mode; the dispatcher
\* emits nothing while the queue is at that capacity.
C18_QueueAtMostCapacity ==
    mode \in {"bulk", "stream"} =>
        Len(taskChan) <= (IF mode = "bulk" THEN workerCount ELSE TaskChanCap)

\* C18 witness: the streaming dispatcher holds a full batch and waits, the
\* queue being full with 20 batches, more than W
C18_Witness ==
    /\ mode = "stream"
    /\ dispPc = "send"
    /\ Len(taskChan) = TaskChanCap
    /\ workerCount < TaskChanCap

\* a worker waits in db.Begin for a connection while every connection of the
\* pool is held by a transaction that is not finalized
BeginBlocked(w) == wpc[w] = "begin" /\ OpenConns >= PoolSize

\* C12: with a pool of W connections a worker's Begin never waits forever:
\* the run never comes to a standstill with a worker waiting in Begin for a
\* connection held by a transaction that is only finalized at the barrier.
C12_NoBeginBlockedForever ==
    ~ (/\ \E w \in Started : BeginBlocked(w)
       /\ SourceCompleted
       /\ mainPc = "collect"
       /\ ~ ENABLED NextBatch)

\* the record source of the streaming run returned an error
SourceFailed == mode = "stream" /\ loaderPc = "failed"

\* C15: a bulk MapReduce run over N records that returns success has passed
\* each of the N records to the map function exactly once and has committed
\* the transactions holding them.
C15_BulkSuccessMapsAll ==
    (mode = "bulk" /\ mainPc = "returned" /\ ret.kind = "nil") =>
        \A r \in 1 .. nRecords : mapCount[r] = 1 /\ r \in CommittedRows

\* C19: when the record source returns an error the streaming run returns a
\* failure, never success, and no transaction is committed.
C19_SourceErrorFailsRun ==
    (SourceFailed /\ mainPc = "returned") =>
        (ret.kind # "nil" /\ CommittedTxs = {})

\* C30: every result of the per-batch worker pool is produced for one batch,
\* and two results produced for two different batches of one run never carry
\* the same BatchID.
C30_BatchIDIdentifiesBatch ==
    \A i, j \in 1 .. Len(results) :
       i # j => results[i].BatchID # results[j].BatchID

\* the flattener has emitted the rows of the record
Flattened == fpc \in {"rows", "inserted"}

ScalarFields(r) == {k \in DOMAIN r : IsScalar(r[k])}
CollectionFields(r) == {k \in DOMAIN r : IsArray(r[k])}

\* the scalar fields of r whose key is in the column list
BaseRow(r) == [k \in ScalarFields(r) \cap columns |-> r[k]]

\* the scalar fields of r united with the fields of the sub-record e, whose
\* key is in the column list
MergedRow(r, e) ==
    [k \in (ScalarFields(r) \cup DOMAIN e) \cap columns |->
        IF k \in DOMAIN e THEN e[k] ELSE r[k]]

\* every sub-record of the collection field f of r has scalar fields only
FlatElements(r, f) ==
    \A i \in 1 .. Len(r[f][2]) : \A k \in DOMAIN r[f][2][i][2] : IsScalar(r[f][2][i][2][k])

\* C21: a record without a nested-collection field yields exactly one row,
\* which consists of the record's scalar fields whose key is in the column
\* list.
C21_NoNestingOneRow ==
    (Flattened /\ CollectionFields(rec) = {}) => rows = <<BaseRow(rec)>>

\* C21 witness: an XML record of scalar fields was flattened into one row
\* that kept the field id
C21_Witness ==
    /\ fpc = "rows"
    /\ format = "xml"
    /\ CollectionFields(rec) = {}
    /\ Len(rows) = 1
    /\ "id" \in DOMAIN rows[1]

\* C22: a record with exactly one nested-collection field of K >= 1
\* sub-records yields exactly K rows, the i-th being the record's scalar
\* fields united with the fields of the i-th sub-record, filtered to the
\* column list.
C22_SingleNestingKRows ==
    \A f \in CollectionFields(rec) :
       (/\ Flattened
        /\ CollectionFields(rec) = {f}
        /\ Len(rec[f][2]) >= 1
        /\ FlatElements(rec, f))
       => /\ Len(rows) = Len(rec[f][2])
          /\ \A i \in 1 .. Len(rows) : rows[i] = MergedRow(rec, rec[f][2][i][2])

\* C23: a record with the collection fields items and tags of lengths K1 and
\* K2 yields K1 + K2 rows.
C23_SiblingsAdd ==
    (/\ Flattened
     /\ CollectionFields(rec) = {"items", "tags"}
     /\ Len(rec["items"][2]) >= 1
     /\ Len(rec["tags"][2]) >= 1)
    => Len(rows) = Len(rec["items"][2]) + Len(rec["tags"][2])

\* the column names in the column list of a query: the pieces between quotes
NamedColumns(q) ==
    {q[p] : p \in {x \in 2 .. (Len(q) - 1) :
                      q[x - 1] = "\"" /\ q[x + 1] = "\"" /\ q[x] # ", "}}

\* C24: every key of every flattened row, and every column named in the
\* INSERT generated from a row, is in the column list; a record with keys
\* outside the list still yields its rows.
C24_SchemaFiltering ==
    /\ Flattened =>
          /\ Len(rows) >= 1
          /\ \A i \in 1 .. Len(rows) : DOMAIN rows[i] \subseteq columns
    /\ fpc = "inserted" =>
          /\ NamedColumns(stmt.query) \subseteq columns
          /\ NamedColumns(stmt.query) = DOMAIN obj

\* C24 witness: a JSON record with fields outside the column list was
\* flattened and a row that kept some field was turned into an INSERT
C24_Witness ==
    /\ fpc = "inserted"
    /\ format = "json"
    /\ \E k \in DOMAIN rec : k \notin columns
    /\ "items" \in DOMAIN rec
    /\ "sku" \in columns
    /\ "id" \notin columns
    /\ NamedColumns(stmt.query) = {"sku"}

\* the rows with the keys of row and arbitrary scalar values
Twins(row) == [DOMAIN row -> {Scalar(v) : v \in ScalarValues}]

\* C25: a row with the same keys in the same order and any other values
\* gives the same statement text; no field value is a piece of the
\* statement, the values are exactly the bound values.
C25_InjectionSafety ==
    fpc = "inserted" =>
        /\ \A twin \in Twins(obj) :
              InsertStatement(TableName, twin, keyOrder).query = stmt.query
        /\ \A p \in 1 .. Len(stmt.query) : \A v \in ScalarValues : stmt.query[p] # v
        /\ stmt.values = [j \in 1 .. Len(keyOrder) |-> obj[keyOrder[j]]]

\* C25 witness: a row of two fields, one with SQL metacharacters in its
\* value, was turned into an INSERT
C25_Witness ==
    /\ fpc = "inserted"
    /\ Len(keyOrder) >= 2
    /\ \E k \in DOMAIN obj : obj[k] = Scalar(MetaValue)
    /\ \E k \in DOMAIN obj : obj[k] = Scalar(PlainValue)

\* the numbers of the placeholders of a query, in order
RECURSIVE PlaceholderNumbers(_)
PlaceholderNumbers(q) ==
    IF Len(q) < 2 THEN <<>>
    ELSE IF Head(q) = "$" THEN <<q[2]>> \o PlaceholderNumbers(Tail(Tail(q)))
    ELSE PlaceholderNumbers(Tail(q))

\* the names in the column list of a query, in order
RECURSIVE ColumnSequence(_)
ColumnSequence(q) ==
    IF Len(q) < 3 THEN <<>>
    ELSE IF q[1] = "\"" /\ q[3] = "\"" /\ q[2] # ", "
            THEN <<q[2]>> \o ColumnSequence(Tail(Tail(Tail(q))))
    ELSE ColumnSequence(Tail(q))

\* C26: the statement has one placeholder per bound value, numbered
\* $1 .. $n with n = rows x columns (one row per statement), and the j-th
\* bound value is the value of the j-th column of the column list.
C26_InsertShape ==
    fpc = "inserted" =>
        LET n == Len(stmt.values)
            cols == ColumnSequence(stmt.query)
        IN  /\ n = 1 * Len(cols)
            /\ PlaceholderNumbers(stmt.query) = [j \in 1 .. n |-> ToString(j)]
            /\ Len(cols) = Cardinality(DOMAIN obj)
            /\ \A j \in 1 .. n : stmt.values[j] = obj[cols[j]]

\* C26 witness: an INSERT of three columns whose values are not all equal
C26_Witness ==
    /\ fpc = "inserted"
    /\ Len(stmt.values) = 3
    /\ stmt.values[1] # stmt.values[3]
    /\ PlaceholderNumbers(stmt.query) = <<"1", "2", "3">>

\* C27: when the sub-records of a collection contain a collection
\* themselves, the inner collection is expanded too: for K sub-records with
\* L inner sub-records each, one flat row per inner sub-record is emitted
\* and no row carries the inner collection.
C27_RecursiveFlattening ==
    (/\ Flattened
     /\ format = "json"
     /\ CollectionFields(rec) = {"items"}
     /\ Len(rec["items"][2]) >= 1
     /\ \A i \in 1 .. Len(rec["items"][2]) : "parts" \in DOMAIN rec["items"][2][i][2])
    => /\ Len(rows) = Len(rec["items"][2]) * Len(PartsOf[2])
       /\ \A i \in 1 .. Len(rows) :
             /\ "parts" \notin DOMAIN rows[i]
             /\ "pn" \in columns => "pn" \in DOMAIN rows[i]

\* C28: every value of every emitted row is a scalar; in particular a row
\* made from a sub-record of one collection carries no sibling collection.
C28_RowValuesScalar ==
    (/\ Flattened
     /\ format = "json"
     /\ CollectionFields(rec) = {"items", "tags"}
     /\ FlatElements(rec, "items")
     /\ FlatElements(rec, "tags"))
    => \A i \in 1 .. Len(rows) : \A k \in DOMAIN rows[i] : IsScalar(rows[i][k])

\* C29 as stated: a record whose only collection field is empty yields no
\* row.
C29_EmptyCollectionNoRow ==
    \A f \in CollectionFields(rec) :
       (/\ Flattened
        /\ format = "json"
        /\ CollectionFields(rec) = {f}
        /\ Len(rec[f][2]) = 0)
       => rows = <<>>

\* C29 amended: a record whose only collection field is empty yields
\* exactly one row, the record's scalar fields filtered to the column list.
C29_EmptyCollectionBaseRow ==
    \A f \in CollectionFields(rec) :
       (/\ Flattened
        /\ format = "json"
        /\ CollectionFields(rec) = {f}
        /\ Len(rec[f][2]) = 0)
       => rows = <<BaseRow(rec)>>

\* C29 witness: a JSON record with an empty collection items was flattened
\* into one row that holds its field id
C29_Witness ==
    /\ fpc = "rows"
    /\ format = "json"
    /\ CollectionFields(rec) = {"items"}
    /\ Len(rec["items"][2]) = 0
    /\ Len(rows) = 1
    /\ "id" \in DOMAIN rows[1]

\* the <Record> element of r has no child element that occurs twice
NoRepeatedChild(r) == \A f \in CollectionFields(r) : Len(r[f][2]) <= 1

\* C31: the earlier XML flattener returns exactly one row for a <Record>
\* element that has no repeated child element.
C31_EarlierBaseRecordRow ==
    (format = "xml_earlier" /\ Flattened /\ NoRepeatedChild(rec)) => Len(rows) = 1

\* every started worker waits in the range over taskChan
AllWorkersWaitForTask == \A w \in Started : wpc[w] = "loop" /\ taskChan = <<>> /\ ~taskClosed

\* streamFunc has a record to send and recordStream is full
StreamFuncBlocked ==
    mode = "stream" /\ loaderPc = "run" /\ sent < nRecords /\ Len(recordChan) = workerCount

\* C32: the streaming run of the stream-per-task version never comes to a
\* standstill before it has returned; in particular never with the stream
\* function blocked on the record channel while all workers wait for a task.
C32_StreamingRunTerminates ==
    ~ (/\ StreamFuncBlocked
       /\ AllWorkersWaitForTask
       /\ mainPc = "collect"
       /\ ~ ENABLED NextChan)

C34_RecordChanClosedOnce ==
    /\ ~crashed
    /\ loaderPc = "done" => recordClosed

\* C35: the result channel is closed only after every worker has completed
\* its send and returned, no worker is about to send or sends on the closed
\* channel, and every worker's result, exactly one each, reaches the results
\* slice; also when the channel has fewer places than there are workers.
C35_ResultChanClosedAfterSends ==
    /\ resultClosed => \A w \in Workers : wpc[w] = "done" /\ ResultsOf(w) = 1
    /\ mainPc # "collect" =>
          /\ resultClosed
          /\ resultChan = <<>>
          /\ Len(results) = W
          /\ \A w \in Workers : \E i \in 1 .. Len(results) :
                results[i] = MapResult(w, werr[w], wtx[w])
    /\ \A w \in Workers : ResultsOf(w) = (IF wpc[w] \in {"sent", "done"} THEN 1 ELSE 0)

\* C35 witness: the result channel is full, with fewer places than workers,
\* and a worker waits to send its result on it
C35_Witness ==
    /\ mode = "tight"
    /\ ResultChanSize < W
    /\ Len(resultChan) = ResultChanSize
    /\ \E w \in Workers : wpc[w] = "emit"
    /\ ~resultClosed

\* the workers of the run have terminated
AllWorkersDone == \A w \in Workers : wpc[w] = "done"

RECURSIVE SumOver(_, _)
SumOver(f, S) ==
    IF S = {} THEN 0
    ELSE LET x == CHOOSE y \in S : TRUE IN f[x] + SumOver(f, S \ {x})

\* the records the workers received from taskChan
ReceivedByWorkers == SumOver(mapCalls, Workers)

\* the records the forwarding goroutine has put on taskChan
Dispatched == ReceivedByWorkers + Len(taskChan)

\* no mapFunc call of the run returned an error
NoInsertFailure == \A w \in Workers : ~everFailed[w]

\* C36 (as claimed): after all workers have terminated the counter's total is
\* the number of mapFunc calls that returned nil, and in a run without
\* insert failures it is the number of records dispatched.
C36_CounterEqualsDispatched ==
    AllWorkersDone =>
        /\ counter = Cardinality(InsertedRows)
        /\ NoInsertFailure => counter = Dispatched

\* C36 (amended): after all workers have terminated the counter's total is
\* the number of mapFunc calls that returned nil; in a run without insert
\* failures it is the number of records the workers received, which are all
\* the records dispatched when at least one worker opened its transaction.
C36_CounterEqualsNilMapCalls ==
    /\ counter <= Cardinality(InsertedRows)
    /\ AllWorkersDone =>
          /\ counter = Cardinality(InsertedRows)
          /\ NoInsertFailure => counter = ReceivedByWorkers
          /\ (NoInsertFailure /\ \E w \in Workers : ~BeginFailed(w)) =>
                counter = Dispatched

\* C36 witness: two workers have incremented the counter, one of them having
\* waited for the mutex, and all workers have terminated
C36_Witness ==
    /\ AllWorkersDone
    /\ counter = 2
    /\ \A w \in Workers : mapCalls[w] = 1
    /\ NoInsertFailure

\* a Begin, a mapFunc call, a Commit or a Rollback of the run failed
RunFailed ==
    \/ \E w \in Workers : everFailed[w] \/ BeginFailed(w)
    \/ \E i \in 1 .. Len(calls) : ~calls[i].ok

\* C37: the input file is touched only after MapReduceStreaming has returned
\* success, and in a run that failed during mapping or finalization the
\* input file is left in place.
C37_MoveOnlyAfterSuccess ==
    inputFile # "in_place" =>
        /\ mainPc \in {"remove", "exited"}
        /\ ret.kind = "nil"
        /\ ~RunFailed

====
